---- MODULE Spec2Model ----
(***************************************************************************)
(* DGit storage engine: CommitManager.CreateCommit (commit.go) and the     *)
(* restoration / fingerprint path of StatusManager (status.go).            *)
(*                                                                         *)
(* Bytes are one-character strings, byte strings are sequences of them.    *)
(* The LZ4 frame, the ZIP container and the bsdiff patch are library       *)
(* formats: an LZ4 file is modelled by the stream it decompresses to, a    *)
(* ZIP archive by its ordered entry list (zip.Writer.Create writes no      *)
(* timestamps, so the bytes are a function of the entry list), and a       *)
(* bsdiff patch by the pair (old, new) it was computed from.  The sizes    *)
(* the libraries produce are inputs of the commit.                         *)
(***************************************************************************)
EXTENDS Integers, Sequences, FiniteSets, TLC

(***************************************************************************)
(* Bounds of the model                                                     *)
(***************************************************************************)
MaxVersion == 6
MaxFaults == 1
MaxCodecFiles == 2
MaxWideVersion == 2
MaxSelFiles == 2
MaxPlanVersion == 3
MaxSkipVersion == 3
MaxLayers == 2
MaxOptVersion == 2

(***************************************************************************)
(* Program constants                                                       *)
(***************************************************************************)
SmallFileThreshold == 50 * 1024 * 1024
VeryLargeFileThreshold == 100 * 1024 * 1024
MaxDeltaChainLength == 5
CompressionThresholdPct == 95
ExpansionLimitTenths == 12

(***************************************************************************)
(* Byte-string helpers (strings.Index, HasPrefix, Split, Itoa, ParseInt)   *)
(***************************************************************************)
NL == "\n"
Colon == ":"
FILEPrefix == <<"F", "I", "L", "E", ":">>
Digits == <<"0", "1", "2", "3", "4", "5", "6", "7", "8", "9">>

\* strings.Index(s[pos:], ch) as an absolute 1-based index, 0 when absent
RECURSIVE IndexFrom(_, _, _)
IndexFrom(s, ch, pos) ==
    IF pos > Len(s) THEN 0
    ELSE IF s[pos] = ch THEN pos
    ELSE IndexFrom(s, ch, pos + 1)

HasPrefix(s, pre) ==
    /\ Len(s) >= Len(pre)
    /\ SubSeq(s, 1, Len(pre)) = pre

\* strings.Split(s, ":")
RECURSIVE SplitColon(_)
SplitColon(s) ==
    LET i == IndexFrom(s, Colon, 1)
    IN IF i = 0 THEN <<s>>
       ELSE <<SubSeq(s, 1, i - 1)>> \o SplitColon(SubSeq(s, i + 1, Len(s)))

\* the %d verb of fmt.Sprintf for a non-negative integer
RECURSIVE Itoa(_)
Itoa(n) ==
    IF n < 10 THEN <<Digits[n + 1]>>
    ELSE Itoa(n \div 10) \o <<Digits[(n % 10) + 1]>>

DigitValue(ch) ==
    IF \E d \in 1..10 : Digits[d] = ch
    THEN (CHOOSE d \in 1..10 : Digits[d] = ch) - 1
    ELSE -1

\* strconv.ParseInt(s, 10, 64); -1 stands for a returned error
RECURSIVE ParseInt(_)
ParseInt(s) ==
    IF Len(s) = 0 THEN -1
    ELSE LET d == DigitValue(s[Len(s)])
         IN IF d < 0 THEN -1
            ELSE IF Len(s) = 1 THEN d
            ELSE LET hi == ParseInt(SubSeq(s, 1, Len(s) - 1))
                 IN IF hi < 0 THEN -1 ELSE hi * 10 + d

\* strings.ToLower on the letters that occur in the model's extensions
ToLowerCh(ch) ==
    CASE ch = "P" -> "p"
      [] ch = "S" -> "s"
      [] ch = "D" -> "d"
      [] ch = "A" -> "a"
      [] ch = "I" -> "i"
      [] OTHER -> ch

ToLower(s) == [k \in 1..Len(s) |-> ToLowerCh(s[k])]

\* index of the last '.' of s, 0 when there is none
RECURSIVE LastDot(_, _)
LastDot(s, k) ==
    IF k = 0 THEN 0
    ELSE IF s[k] = "." THEN k
    ELSE IF s[k] = "/" THEN 0
    ELSE LastDot(s, k - 1)

\* filepath.Ext
Ext(path) ==
    LET d == LastDot(path, Len(path))
    IN IF d = 0 THEN <<>> ELSE SubSeq(path, d, Len(path))

(***************************************************************************)
(* Staged files.  Size is StagedFile.Size (recorded at staging time and    *)
(* used by the strategy rules and by the delta ratio); content is what     *)
(* reading AbsolutePath returns at commit time; readable is FALSE when     *)
(* os.Open / os.ReadFile fails.                                            *)
(***************************************************************************)
StagedFile(path, size, content, readable) ==
    [Path |-> path, Size |-> size, content |-> content, readable |-> readable]

\* n bytes of value ch
Bytes(ch, n) == [k \in 1..n |-> ch]

fTxt == StagedFile(<<"a", ".", "t", "x", "t">>, 100, Bytes("h", 14), TRUE)
fPsd == StagedFile(<<"a", ".", "p", "s", "d">>, 100, Bytes("p", 7), TRUE)
fBig == StagedFile(<<"b", ".", "b", "i", "n">>, VeryLargeFileThreshold + 1, Bytes("z", 7), TRUE)
fEmpty == StagedFile(<<"e", ".", "t", "x", "t">>, 0, <<>>, TRUE)
\* a text file of 6 bytes
fHello == StagedFile(<<"h", ".", "t", "x", "t">>, 6, <<"h", "e", "l", "l", "o", NL>>, TRUE)

\* staged files whose os.Open / os.ReadFile fails at commit time
fGone == StagedFile(<<"g", ".", "t", "x", "t">>, 100, Bytes("g", 5), FALSE)
fLost == StagedFile(<<"l", ".", "p", "s", "d">>, 100, Bytes("l", 5), FALSE)

\* the staged lists the staging collaborator hands to CreateCommit
StagedLists ==
    << <<fTxt, fEmpty>>,
       <<fPsd, fBig>>,
       <<fHello>>,
       <<>>,
       <<fEmpty>>,
       <<fGone, fTxt>>,
       <<fLost, fPsd, fBig>> >>

\* the staged lists all of whose files can be read
ReadableLists ==
    {i \in 1..Len(StagedLists) :
        \A k \in 1..Len(StagedLists[i]) : StagedLists[i][k].readable}
\* the staged lists with a file that cannot be read
SkipLists == (1..Len(StagedLists)) \ ReadableLists

\* the logical path -> bytes mapping of a staged list, as a set of pairs
FileSetOf(files) ==
    {<<files[k].Path, files[k].content>> : k \in {j \in 1..Len(files) : files[j].readable}}

RECURSIVE SumSize(_)
SumSize(files) ==
    IF Len(files) = 0 THEN 0 ELSE files[1].Size + SumSize(Tail(files))

RECURSIVE SumContentLen(_)
SumContentLen(files) ==
    IF Len(files) = 0 THEN 0
    ELSE (IF files[1].readable THEN Len(files[1].content) ELSE 0) + SumContentLen(Tail(files))

(***************************************************************************)
(* Structured-stream codec                                                 *)
(***************************************************************************)
\* header := fmt.Sprintf("FILE:%s:%d\n", file.Path, actualSize), then content
EncodeRecord(path, content) ==
    FILEPrefix \o path \o <<Colon>> \o Itoa(Len(content)) \o <<NL>> \o content

\* compressWithLZ4 changed to write a record for every staged file
RECURSIVE StructuredStreamAllFiles(_)
StructuredStreamAllFiles(files) ==
    IF Len(files) = 0 THEN <<>>
    ELSE EncodeRecord(files[1].Path, files[1].content)
             \o StructuredStreamAllFiles(Tail(files))

\* the stream compressWithLZ4 feeds to the LZ4 writer
RECURSIVE StructuredStream(_)
StructuredStream(files) ==
    IF Len(files) = 0 THEN <<>>
    ELSE (IF files[1].readable
          THEN EncodeRecord(files[1].Path, files[1].content)
          ELSE <<>>) \o StructuredStream(Tail(files))

ZipEntry(name, data) == [name |-> name, data |-> data]

\* CommitManager.parseStructuredDataToZip: pos is 1-based
RECURSIVE parseStructuredDataToZip(_, _, _)
parseStructuredDataToZip(data, pos, zip) ==
    IF pos > Len(data) THEN zip
    ELSE LET headerEnd == IndexFrom(data, NL, pos)
         IN IF headerEnd = 0 THEN zip
            ELSE LET headerLine == SubSeq(data, pos, headerEnd - 1)
                     parts == SplitColon(headerLine)
                 IN IF ~HasPrefix(headerLine, FILEPrefix)
                    THEN parseStructuredDataToZip(data, headerEnd + 1, zip)
                    ELSE IF Len(parts) # 3
                    THEN parseStructuredDataToZip(data, headerEnd + 1, zip)
                    ELSE LET fileSize == ParseInt(parts[3])
                             fileDataStart == headerEnd + 1
                             fileDataEnd == fileDataStart + fileSize
                         IN IF fileSize <= 0
                            THEN parseStructuredDataToZip(data, headerEnd + 1, zip)
                            ELSE IF fileDataEnd - 1 > Len(data) THEN zip
                            ELSE parseStructuredDataToZip(data, fileDataEnd,
                                    Append(zip, ZipEntry(parts[2],
                                        SubSeq(data, fileDataStart, fileDataEnd - 1))))

\* convertLZ4ToZip changed to keep records of size 0
RECURSIVE convertLZ4ToZipKeepingEmpty(_, _, _)
convertLZ4ToZipKeepingEmpty(data, pos, zip) ==
    IF pos > Len(data) THEN zip
    ELSE LET headerEnd == IndexFrom(data, NL, pos)
         IN IF headerEnd = 0 THEN zip
            ELSE LET headerLine == SubSeq(data, pos, headerEnd - 1)
                     parts == SplitColon(headerLine)
                 IN IF ~HasPrefix(headerLine, FILEPrefix)
                    THEN convertLZ4ToZipKeepingEmpty(data, headerEnd + 1, zip)
                    ELSE IF Len(parts) # 3
                    THEN convertLZ4ToZipKeepingEmpty(data, headerEnd + 1, zip)
                    ELSE LET fileSize == ParseInt(parts[3])
                             fileDataStart == headerEnd + 1
                             fileDataEnd == fileDataStart + fileSize
                         IN IF fileSize < 0
                            THEN convertLZ4ToZipKeepingEmpty(data, headerEnd + 1, zip)
                            ELSE IF fileDataEnd - 1 > Len(data) THEN zip
                            ELSE convertLZ4ToZipKeepingEmpty(data, fileDataEnd,
                                    Append(zip, ZipEntry(parts[2],
                                        SubSeq(data, fileDataStart, fileDataEnd - 1))))

\* StatusManager.convertLZ4ToZip: the loop over the decompressed data
RECURSIVE convertLZ4ToZip(_, _, _)
convertLZ4ToZip(data, pos, zip) ==
    IF pos > Len(data) THEN zip
    ELSE LET headerEnd == IndexFrom(data, NL, pos)
         IN IF headerEnd = 0 THEN zip
            ELSE LET headerLine == SubSeq(data, pos, headerEnd - 1)
                     parts == SplitColon(headerLine)
                 IN IF ~HasPrefix(headerLine, FILEPrefix)
                    THEN convertLZ4ToZip(data, headerEnd + 1, zip)
                    ELSE IF Len(parts) # 3
                    THEN convertLZ4ToZip(data, headerEnd + 1, zip)
                    ELSE LET fileSize == ParseInt(parts[3])
                             fileDataStart == headerEnd + 1
                             fileDataEnd == fileDataStart + fileSize
                         IN IF fileSize <= 0
                            THEN convertLZ4ToZip(data, headerEnd + 1, zip)
                            ELSE IF fileDataEnd - 1 > Len(data) THEN zip
                            ELSE convertLZ4ToZip(data, fileDataEnd,
                                    Append(zip, ZipEntry(parts[2],
                                        SubSeq(data, fileDataStart, fileDataEnd - 1))))

\* extractHashesFromStructuredData changed to keep records of size 0
RECURSIVE extractHashesKeepingEmpty(_, _, _)
extractHashesKeepingEmpty(data, pos, fileHashes) ==
    IF pos > Len(data) THEN fileHashes
    ELSE LET headerEnd == IndexFrom(data, NL, pos)
         IN IF headerEnd = 0 THEN fileHashes
            ELSE LET headerLine == SubSeq(data, pos, headerEnd - 1)
                     parts == SplitColon(headerLine)
                 IN IF ~HasPrefix(headerLine, FILEPrefix)
                    THEN extractHashesKeepingEmpty(data, headerEnd + 1, fileHashes)
                    ELSE IF Len(parts) # 3
                    THEN extractHashesKeepingEmpty(data, headerEnd + 1, fileHashes)
                    ELSE LET fileSize == ParseInt(parts[3])
                             fileDataStart == headerEnd + 1
                             fileDataEnd == fileDataStart + fileSize
                         IN IF fileSize < 0
                            THEN extractHashesKeepingEmpty(data, headerEnd + 1, fileHashes)
                            ELSE IF fileDataEnd - 1 > Len(data) THEN fileHashes
                            ELSE extractHashesKeepingEmpty(data, fileDataEnd,
                                    [p \in (DOMAIN fileHashes) \cup {parts[2]} |->
                                        IF p = parts[2]
                                        THEN SubSeq(data, fileDataStart, fileDataEnd - 1)
                                        ELSE fileHashes[p]])

\* StatusManager.extractHashesFromStructuredData: the map path -> content it
\* hashes (sha256 is taken as injective, so the content stands for the hash);
\* a later record of the same path overwrites an earlier one
RECURSIVE extractHashesFromStructuredData(_, _, _)
extractHashesFromStructuredData(data, pos, fileHashes) ==
    IF pos > Len(data) THEN fileHashes
    ELSE LET headerEnd == IndexFrom(data, NL, pos)
         IN IF headerEnd = 0 THEN fileHashes
            ELSE LET headerLine == SubSeq(data, pos, headerEnd - 1)
                     parts == SplitColon(headerLine)
                 IN IF ~HasPrefix(headerLine, FILEPrefix)
                    THEN extractHashesFromStructuredData(data, headerEnd + 1, fileHashes)
                    ELSE IF Len(parts) # 3
                    THEN extractHashesFromStructuredData(data, headerEnd + 1, fileHashes)
                    ELSE LET fileSize == ParseInt(parts[3])
                             fileDataStart == headerEnd + 1
                             fileDataEnd == fileDataStart + fileSize
                         IN IF fileSize <= 0
                            THEN extractHashesFromStructuredData(data, headerEnd + 1, fileHashes)
                            ELSE IF fileDataEnd - 1 > Len(data) THEN fileHashes
                            ELSE extractHashesFromStructuredData(data, fileDataEnd,
                                    [p \in (DOMAIN fileHashes) \cup {parts[2]} |->
                                        IF p = parts[2]
                                        THEN SubSeq(data, fileDataStart, fileDataEnd - 1)
                                        ELSE fileHashes[p]])

\* CommitManager.createTempZipFile: one entry per readable staged file
RECURSIVE createTempZipFile(_)
createTempZipFile(files) ==
    IF Len(files) = 0 THEN <<>>
    ELSE (IF files[1].readable
          THEN <<ZipEntry(files[1].Path, files[1].content)>>
          ELSE <<>>) \o createTempZipFile(Tail(files))

\* the (name, data) pairs of an archive
ZipFileSet(zip) == {<<zip[k].name, zip[k].data>> : k \in 1..Len(zip)}

(***************************************************************************)
(* Repository state                                                        *)
(***************************************************************************)
VARIABLES
    commits,      \* commits/v<N>.json : version -> commit record
    snapshots,    \* snapshots/v<N>.lz4 : version -> decompressed structured stream
    deltas,       \* deltas/v<N>_from_v<N-1>.psd_smart : version -> patch
    objects,      \* objects/v<N>.zip : version -> legacy archive
    head,         \* content of the HEAD file
    stagedAt,     \* history: version -> index of the staged list its record was written for
    last,         \* history: outcome of the most recent CreateCommit call
    faults,       \* number of I/O errors injected so far
    temps,        \* temporary files present under the repository root
    status,       \* result of the most recent status query since the last commit call
    codecIn,      \* codec run: the list of (path, bytes) pairs to write
    codecPrefix,  \* codec run: bytes that precede the records in the stream
    codecStream,  \* codec run: the structured stream written
    codecOut,     \* codec run: the entries the decoder produced
    codecPc,      \* codec run: "idle", "start", "encoded", "decoded"
    selFiles,     \* selector run: the staged list handed to createSnapshot
    selVersion,   \* selector run: the version to be written
    selPath,      \* selector run: "idle", "start", or the path taken: "delta", "full"
    cache,        \* deltas/v<N>.lz4 : version -> decompressed structured stream
    optimized,    \* deltas/v<N>_optimized.zstd : version -> stream written so far
    optTasks,     \* background optimisation goroutines: version -> position
    enableBackgroundOpt,  \* field of the CommitManager
    oldLayers,    \* analyzer run: the layers of the base version
    newLayers,    \* analyzer run: the layers of the new version
    analysis      \* analyzer run: the ChangeAnalysis returned, NoAnalysis before the call

vars == <<commits, snapshots, deltas, objects, head, stagedAt, last, faults,
          temps, status, codecIn, codecPrefix, codecStream, codecOut, codecPc,
          selFiles, selVersion, selPath, cache, optimized, optTasks,
          enableBackgroundOpt, oldLayers, newLayers, analysis>>

repoVars == <<commits, snapshots, deltas, objects, head, stagedAt, last, faults,
              temps, status>>
codecVars == <<codecIn, codecPrefix, codecStream, codecOut, codecPc>>
selVars == <<selFiles, selVersion, selPath>>
optVars == <<cache, optimized, optTasks, enableBackgroundOpt>>
layVars == <<oldLayers, newLayers, analysis>>

EmptyHead == <<>>
NoPath == [dir |-> "none", v |-> 0, ext |-> ""]
NoResult == [Strategy |-> "", OutputFile |-> NoPath, OriginalSize |-> 0,
             CompressedSize |-> 0, CompressionRatio |-> <<0, 1>>, BaseVersion |-> 0]
\* float64(a) / float64(b) as the fraction a / b
Ratio(a, b) == <<a, b>>

NoLast == [ok |-> FALSE, err |-> "", version |-> 0, delta |-> "none",
           deltaSize |-> 0, deltaOriginal |-> 0, input |-> 0, deltaErr |-> "",
           lz4Size |-> -1]

NoStatus == [op |-> "none"]
NoAnalysis == [TotalLayers |-> -1]

\* temp/temp_current_v<N>.zip and temp/temp_base_v<B>.zip of the delta writer
TempCurrentZip(version) == [dir |-> "temp", name |-> "temp_current", v |-> version, i |-> 0]
TempBaseZip(version) == [dir |-> "temp", name |-> "temp_base", v |-> version, i |-> 0]
\* objects/temp_restore_<nanoseconds>.zip; the time stamp is left out
TempRestoreFile == [dir |-> "objects", name |-> "temp_restore", v |-> 0, i |-> 0]
\* objects/temp_status_<version>_<i>.zip and objects/temp_status_<version>.zip
TempStatusStep(version, i) == [dir |-> "objects", name |-> "temp_status", v |-> version, i |-> i]
TempStatusFile(version) == [dir |-> "objects", name |-> "temp_status", v |-> version, i |-> 0]

Remove(f, v) == [x \in (DOMAIN f) \ {v} |-> f[x]]
Put(f, v, x) == (v :> x) @@ f

SnapshotPath(v) == [dir |-> "snapshots", v |-> v, ext |-> "lz4"]
LegacyPath(v) == [dir |-> "objects", v |-> v, ext |-> "zip"]
DeltaPath(v, b) == [dir |-> "deltas", v |-> v, ext |-> "psd_smart", from |-> b]
\* deltas/v<N>.lz4 and deltas/v<N>_optimized.zstd
CachePath(v) == [dir |-> "deltas", v |-> v, ext |-> "lz4"]
OptimizedPath(v) == [dir |-> "deltas", v |-> v, ext |-> "zstd"]
\* filepath.Base
Base(path) == [path EXCEPT !.dir = ""]

\* CommitManager.fileExists on the paths the model holds
fileExists(path) ==
    CASE path.dir = "snapshots" -> path.v \in DOMAIN snapshots
      [] path.dir = "objects" -> path.v \in DOMAIN objects
      [] path.dir = "deltas" /\ path.ext = "psd_smart" -> path.v \in DOMAIN deltas
      [] path.dir = "deltas" /\ path.ext = "lz4" -> path.v \in DOMAIN cache
      [] path.dir = "deltas" /\ path.ext = "zstd" -> path.v \in DOMAIN optimized
      [] OTHER -> FALSE

\* findVersionInStorage changed to prefer the optimized copy
findVersionInStorageOptimizedFirst(version) ==
    IF fileExists(OptimizedPath(version)) THEN OptimizedPath(version)
    ELSE IF fileExists(SnapshotPath(version)) THEN SnapshotPath(version)
    ELSE IF fileExists(CachePath(version)) THEN CachePath(version)
    ELSE IF fileExists(LegacyPath(version)) THEN LegacyPath(version)
    ELSE NoPath

\* CommitManager.findVersionInStorage
findVersionInStorage(version) ==
    IF fileExists(SnapshotPath(version)) THEN SnapshotPath(version)
    ELSE IF fileExists(CachePath(version)) THEN CachePath(version)
    ELSE IF fileExists(OptimizedPath(version)) THEN OptimizedPath(version)
    ELSE IF fileExists(LegacyPath(version)) THEN LegacyPath(version)
    ELSE NoPath

\* CommitManager.getDeltaChainLength
RECURSIVE getDeltaChainLength(_)
getDeltaChainLength(ver) ==
    IF ver <= 0 THEN 0
    ELSE IF fileExists(LegacyPath(ver)) THEN 0
    ELSE 1 + getDeltaChainLength(ver - 1)

\* shouldCreateNewSnapshot changed to compare with > instead of >=
shouldCreateNewSnapshotOffByOne(ver) == getDeltaChainLength(ver) > MaxDeltaChainLength

shouldCreateNewSnapshot(ver) == getDeltaChainLength(ver) >= MaxDeltaChainLength

SetMax(S) ==
    IF S = {} THEN 0
    ELSE LET x == CHOOSE y \in S : \A z \in S : z <= y IN x

\* GetCurrentVersion changed to take the version from the record HEAD names
GetCurrentVersionFromHead ==
    IF \E v \in DOMAIN commits : commits[v].hash = head
    THEN CHOOSE v \in DOMAIN commits : commits[v].hash = head
    ELSE 0

\* CommitManager.GetCurrentVersion: the largest N with a commits/v<N>.json
GetCurrentVersion == SetMax(DOMAIN commits)

getCurrentCommitHash == head

\* CommitManager.generateCommitHash: sha256 over message, version, time and
\* the staged files, taken as injective
generateCommitHash(i, ver) == <<ver, i>>

PsdExt == <<".", "p", "s", "d">>
AiExt == <<".", "a", "i">>
SketchExt == <<".", "s", "k", "e", "t", "c", "h">>

\* shouldUseLZ4 changed to compare the extension as written
RECURSIVE shouldUseLZ4CaseSensitive(_, _)
shouldUseLZ4CaseSensitive(files, version) ==
    IF version = 1 THEN TRUE
    ELSE IF Len(files) = 0 THEN TRUE
    ELSE LET file == files[1]
             ext == Ext(file.Path)
         IN IF file.Size > VeryLargeFileThreshold THEN TRUE
            ELSE IF file.Size > SmallFileThreshold THEN FALSE
            ELSE IF ext = PsdExt \/ ext = AiExt \/ ext = SketchExt THEN FALSE
            ELSE shouldUseLZ4CaseSensitive(Tail(files), version)

\* CommitManager.shouldUseLZ4
RECURSIVE shouldUseLZ4(_, _)
shouldUseLZ4(files, version) ==
    IF version = 1 THEN TRUE
    ELSE IF Len(files) = 0 THEN TRUE
    ELSE LET file == files[1]
             ext == ToLower(Ext(file.Path))
         IN IF file.Size > VeryLargeFileThreshold THEN TRUE
            ELSE IF file.Size > SmallFileThreshold THEN FALSE
            ELSE IF ext = PsdExt \/ ext = AiExt \/ ext = SketchExt THEN FALSE
            ELSE shouldUseLZ4(Tail(files), version)

\* bytes of an LZ4 frame around its block data: magic number (4), frame
\* descriptor (3), block header (4), end mark (4)
LZ4FrameOverhead == 15

\* sizes of the file lz4.Writer may leave for the staged list: the frame holds
\* at least one byte of block data and at most the stream stored raw; of these
\* the largest size the expansion test accepts and the smallest it rejects
CompressedSizes(files) ==
    LET originalSize == SumContentLen(files)
        streamLen == Len(StructuredStream(files))
        lo == LZ4FrameOverhead + 1
        hi == LZ4FrameOverhead + streamLen
        limit == (ExpansionLimitTenths * originalSize) \div 10
    IN IF streamLen = 0 THEN {LZ4FrameOverhead - 4}
       ELSE {c \in {limit, IF limit + 1 > lo THEN limit + 1 ELSE lo} : c >= lo /\ c <= hi}

\* the largest deltaSize with deltaSize / originalSize <= 0.95, computed
\* without leaving 32 bits
MaxAcceptedDeltaSize(originalSize) ==
    originalSize - (((100 - CompressionThresholdPct) * originalSize + 99) \div 100)

\* sizes bsdiff may produce for a commit whose staged sizes sum to originalSize
DeltaSizes(originalSize) ==
    {MaxAcceptedDeltaSize(originalSize), MaxAcceptedDeltaSize(originalSize) + 1}

\* compressWithLZ4 changed to leave the file it rejects
RemoveOutputSkipped(snaps, version) == snaps

\* os.Remove(versionPath)
RemoveOutput(snaps, version) == Remove(snaps, version)

\* CommitManager.compressWithLZ4 on the snapshots directory snaps;
\* compressedSize is the size of the file the LZ4 writer produced (0 when
\* its writes failed: their errors are only printed)
compressWithLZ4(files, version, snaps, compressedSize) ==
    LET versionPath == SnapshotPath(version)
        originalSize == SumContentLen(files)
        written == Put(snaps, version, StructuredStream(files))
    IN IF originalSize = 0
       THEN [err |-> "NoData", snapshots |-> RemoveOutput(written, version), res |-> NoResult]
       ELSE IF compressedSize * 10 > ExpansionLimitTenths * originalSize
       THEN [err |-> "CompressionExpanded", snapshots |-> RemoveOutput(written, version),
             res |-> NoResult]
       ELSE IF compressedSize = 0
       THEN [err |-> "EmptyOutput", snapshots |-> RemoveOutput(written, version),
             res |-> NoResult]
       ELSE [err |-> "", snapshots |-> written,
             res |-> [Strategy |-> "lz4", OutputFile |-> Base(versionPath),
                      OriginalSize |-> originalSize, CompressedSize |-> compressedSize,
                      CompressionRatio |-> Ratio(compressedSize, originalSize),
                      BaseVersion |-> 0]]

\* CommitManager.convertToZip: the archive a located base artifact converts to
convertToZip(sourcePath) ==
    IF sourcePath.ext = "lz4"
    THEN parseStructuredDataToZip(IF sourcePath.dir = "snapshots"
                                  THEN snapshots[sourcePath.v]
                                  ELSE cache[sourcePath.v], 1, <<>>)
    ELSE IF sourcePath.ext = "zstd"
    THEN parseStructuredDataToZip(optimized[sourcePath.v].data, 1, <<>>)
    ELSE objects[sourcePath.v]

\* bsdiff.Bytes(oldData, newData)
bsdiffBytes(oldData, newData) == [old |-> oldData, new |-> newData, complete |-> TRUE]
\* what os.Create leaves at deltaPath when the patch is never written
PartialPatch == [old |-> <<>>, new |-> <<>>, complete |-> FALSE]

\* the deferred os.Remove calls left out
DeferredRemoveSkipped(files, created) == files \cup created

\* defer os.Remove(f) for each f of created: what is left of files, which
\* holds created, when the function returns
DeferredRemove(files, created) == files \ created

\* createBsdiffDelta changed to record its own version as BaseVersion
createBsdiffDeltaWrongBase(files, version, baseVersion, deltaSize, ioError) ==
    LET tempCurrentZip == createTempZipFile(files)
        basePath == findVersionInStorage(baseVersion)
        deltaPath == DeltaPath(version, baseVersion)
        \* the deferred os.Remove calls run at every return
        noBase == DeferredRemove(temps, {TempCurrentZip(version)})
        withBase == DeferredRemove(temps, {TempCurrentZip(version), TempBaseZip(baseVersion)})
    IN IF ioError = "delta_zip"
       THEN [err |-> "CurrentZipFailed", deltas |-> deltas, res |-> NoResult, faulted |-> TRUE,
             temps |-> noBase]
       ELSE IF basePath = NoPath
       THEN [err |-> "BaseNotFound", deltas |-> deltas, res |-> NoResult, faulted |-> FALSE,
             temps |-> noBase]
       ELSE IF ioError = "delta_convert"
       THEN [err |-> "BaseConversionFailed", deltas |-> deltas, res |-> NoResult,
             faulted |-> TRUE, temps |-> withBase]
       ELSE IF ioError = "delta_write"
       THEN [err |-> "PatchComputeFailed", deltas |-> Put(deltas, version, PartialPatch),
             res |-> NoResult, faulted |-> TRUE, temps |-> withBase]
       ELSE [err |-> "",
             deltas |-> Put(deltas, version, bsdiffBytes(convertToZip(basePath), tempCurrentZip)),
             res |-> [Strategy |-> "bsdiff", OutputFile |-> Base(deltaPath),
                      OriginalSize |-> SumSize(files), CompressedSize |-> deltaSize,
                      CompressionRatio |-> Ratio(deltaSize, SumSize(files)),
                      BaseVersion |-> version],
             faulted |-> FALSE, temps |-> withBase]

\* CommitManager.createBsdiffDelta; deltaSize is the size of the patch file,
\* ioError the I/O error that strikes: "delta_zip" in createTempZipFile,
\* "delta_convert" in convertToZip, "delta_write" in bsdiff.Bytes or
\* deltaFile.Write, after os.Create(deltaPath)
createBsdiffDelta(files, version, baseVersion, deltaSize, ioError) ==
    LET tempCurrentZip == createTempZipFile(files)
        basePath == findVersionInStorage(baseVersion)
        deltaPath == DeltaPath(version, baseVersion)
        \* the deferred os.Remove calls run at every return
        noBase == DeferredRemove(temps, {TempCurrentZip(version)})
        withBase == DeferredRemove(temps, {TempCurrentZip(version), TempBaseZip(baseVersion)})
    IN IF ioError = "delta_zip"
       THEN [err |-> "CurrentZipFailed", deltas |-> deltas, res |-> NoResult, faulted |-> TRUE,
             temps |-> noBase]
       ELSE IF basePath = NoPath
       THEN [err |-> "BaseNotFound", deltas |-> deltas, res |-> NoResult, faulted |-> FALSE,
             temps |-> noBase]
       ELSE IF ioError = "delta_convert"
       THEN [err |-> "BaseConversionFailed", deltas |-> deltas, res |-> NoResult,
             faulted |-> TRUE, temps |-> withBase]
       ELSE IF ioError = "delta_write"
       THEN [err |-> "PatchComputeFailed", deltas |-> Put(deltas, version, PartialPatch),
             res |-> NoResult, faulted |-> TRUE, temps |-> withBase]
       ELSE [err |-> "",
             deltas |-> Put(deltas, version, bsdiffBytes(convertToZip(basePath), tempCurrentZip)),
             res |-> [Strategy |-> "bsdiff", OutputFile |-> Base(deltaPath),
                      OriginalSize |-> SumSize(files), CompressedSize |-> deltaSize,
                      CompressionRatio |-> Ratio(deltaSize, SumSize(files)),
                      BaseVersion |-> baseVersion],
             faulted |-> FALSE, temps |-> withBase]

\* CommitManager.selectDeltaAlgorithm
selectDeltaAlgorithm(files) == "bsdiff"

\* CommitManager.createDelta: bsdiff for every staged list; createPSDSmartDelta
\* and the change analyzer are called from nowhere
createDelta(files, version, baseVersion, deltaSize, ioError) ==
    createBsdiffDelta(files, version, baseVersion, deltaSize, ioError)

\* RatioAccepted changed to compare with < instead of <=
RatioAcceptedStrict(res) ==
    /\ res.OriginalSize > 0
    /\ res.CompressedSize < MaxAcceptedDeltaSize(res.OriginalSize)

\* deltaResult.CompressionRatio <= cm.CompressionThreshold, the ratio being
\* float64(deltaSize) / float64(originalSize) (+Inf or NaN when originalSize is 0)
RatioAccepted(res) ==
    /\ res.OriginalSize > 0
    /\ res.CompressedSize <= MaxAcceptedDeltaSize(res.OriginalSize)

\* CommitManager.createSnapshot
createSnapshot(files, version, prevVersion, compressedSize, deltaSize, ioError) ==
    IF shouldUseLZ4(files, version)
    THEN LET z == compressWithLZ4(files, version, snapshots, compressedSize)
         IN [err |-> z.err, snapshots |-> z.snapshots, deltas |-> deltas, res |-> z.res,
             delta |-> "none", dres |-> NoResult, faulted |-> FALSE, temps |-> temps,
             deltaErr |-> "", lz4 |-> TRUE]
    ELSE IF version > 1 /\ ~shouldCreateNewSnapshot(prevVersion)
    THEN LET d == createDelta(files, version, prevVersion, deltaSize, ioError)
         IN IF d.err # ""
            THEN LET z == compressWithLZ4(files, version, snapshots, compressedSize)
                 IN [err |-> z.err, snapshots |-> z.snapshots, deltas |-> d.deltas,
                     res |-> z.res, delta |-> "failed", dres |-> NoResult,
                     faulted |-> d.faulted, temps |-> d.temps, deltaErr |-> d.err,
                     lz4 |-> TRUE]
            ELSE IF RatioAccepted(d.res)
            THEN [err |-> "", snapshots |-> snapshots, deltas |-> d.deltas, res |-> d.res,
                  delta |-> "accepted", dres |-> d.res, faulted |-> FALSE,
                  temps |-> d.temps, deltaErr |-> "", lz4 |-> FALSE]
            ELSE LET z == compressWithLZ4(files, version, snapshots, compressedSize)
                 IN [err |-> z.err, snapshots |-> z.snapshots,
                     deltas |-> Remove(d.deltas, version),
                     res |-> z.res, delta |-> "rejected", dres |-> d.res, faulted |-> FALSE,
                     temps |-> d.temps, deltaErr |-> "", lz4 |-> TRUE]
    ELSE LET z == compressWithLZ4(files, version, snapshots, compressedSize)
         IN [err |-> z.err, snapshots |-> z.snapshots, deltas |-> deltas, res |-> z.res,
             delta |-> "none", dres |-> NoResult, faulted |-> FALSE, temps |-> temps,
             deltaErr |-> "", lz4 |-> TRUE]

(***************************************************************************)
(* Restoration (status.go)                                                 *)
(***************************************************************************)
RestorationStep(type, file, version) == [Type |-> type, File |-> file, Version |-> version]

\* StatusManager.findRestorationPath, the loop from currentVersion down;
\* deltas/*.bsdiff and objects/deltas/*.bsdiff are written by no operation of
\* the model and never exist
RECURSIVE findRestorationPathFrom(_, _, _)
findRestorationPathFrom(targetVersion, currentVersion, path) ==
    IF currentVersion <= 0
    THEN IF Len(path) = 0
         THEN [err |-> "NoRestorationPath", missing |-> targetVersion, path |-> <<>>]
         ELSE [err |-> "", missing |-> 0, path |-> path]
    ELSE IF fileExists(SnapshotPath(currentVersion))
    THEN [err |-> "", missing |-> 0,
          path |-> <<RestorationStep("lz4", SnapshotPath(currentVersion), currentVersion)>> \o path]
    ELSE IF fileExists(LegacyPath(currentVersion))
    THEN [err |-> "", missing |-> 0,
          path |-> <<RestorationStep("zip", LegacyPath(currentVersion), currentVersion)>> \o path]
    ELSE IF fileExists(DeltaPath(currentVersion, currentVersion - 1))
    THEN findRestorationPathFrom(targetVersion, currentVersion - 1,
            <<RestorationStep("psd_smart", DeltaPath(currentVersion, currentVersion - 1),
                              currentVersion)>> \o path)
    ELSE [err |-> "ChainBroken", missing |-> currentVersion, path |-> <<>>]

findRestorationPath(targetVersion) ==
    findRestorationPathFrom(targetVersion, targetVersion, <<>>)

\* what bspatch writes when the patch was computed against other bytes
GarbageZip == <<ZipEntry(<<"?">>, <<"?">>)>>

\* StatusManager.applyBsdiffPatch; ioError = "patch_apply" says that reading
\* the old file or the patch fails in bspatch.Reader
applyBsdiffPatch(oldZip, patch, ioError) ==
    IF ioError = "patch_apply" THEN [err |-> "PatchFailed", zip |-> <<>>]
    ELSE IF ~patch.complete THEN [err |-> "PatchFailed", zip |-> <<>>]
    ELSE IF patch.old = oldZip THEN [err |-> "", zip |-> patch.new]
    ELSE [err |-> "", zip |-> GarbageZip]

\* the working file of executeRestorationPath when it reaches path[i]
WorkingTemp(path, i) ==
    IF i = 2 THEN TempRestoreFile ELSE TempStatusStep(path[i - 1].Version, i - 2)

\* StatusManager.executeRestorationPath, the loop over path[i..]; left holds
\* the temporary files an error return leaves behind, applied the versions
\* whose patches were applied, in the order of application
RECURSIVE applySteps(_, _, _, _)
applySteps(path, i, tempZip, ioError) ==
    IF i > Len(path) THEN [err |-> "", zip |-> tempZip, left |-> {}, applied |-> <<>>]
    ELSE LET step == path[i]
         IN IF step.Type \in {"bsdiff", "psd_smart"}
            THEN LET r == applyBsdiffPatch(tempZip, deltas[step.Version], ioError)
                 IN IF r.err # ""
                    THEN [err |-> r.err, zip |-> <<>>,
                          left |-> {WorkingTemp(path, i), TempStatusStep(step.Version, i - 1)},
                          applied |-> <<>>]
                    ELSE LET rest == applySteps(path, i + 1, r.zip, ioError)
                         IN [rest EXCEPT !.applied = <<step.Version>> \o @]
            ELSE [err |-> "UnknownStep", zip |-> <<>>, left |-> {WorkingTemp(path, i)},
                  applied |-> <<>>]

\* StatusManager.executeRestorationPath
executeRestorationPath(path, ioError) ==
    LET baseStep == path[1]
    IN CASE baseStep.Type = "lz4" ->
              applySteps(path, 2, convertLZ4ToZip(snapshots[baseStep.Version], 1, <<>>),
                         ioError) @@ [bases |-> 1]
         [] baseStep.Type = "zip" ->
              applySteps(path, 2, objects[baseStep.Version], ioError) @@ [bases |-> 1]
         [] OTHER -> [err |-> "UnsupportedBase", zip |-> <<>>, left |-> {},
                      applied |-> <<>>, bases |-> 0]

\* the restoration path without I/O errors: plan, then execute
Restore(version) ==
    LET plan == findRestorationPath(version)
    IN IF plan.err # ""
       THEN [err |-> plan.err, zip |-> <<>>, left |-> {}, applied |-> <<>>, bases |-> 0]
       ELSE executeRestorationPath(plan.path, "none")

(***************************************************************************)
(* Fingerprints and comparison with the working tree (status.go).  A hash  *)
(* map is a function from paths to contents: sha256 is taken as injective  *)
(* and the content stands for its hash.                                    *)
(***************************************************************************)
EmptyMap == <<>>

\* StatusManager.extractHashesFromLZ4; versions/ and deltas/ hold no .lz4
\* file in the model
extractHashesFromLZ4(lz4FileName, version) ==
    LET lz4Path == [lz4FileName EXCEPT !.dir = "snapshots"]
    IN IF ~fileExists(lz4Path)
       THEN [err |-> "LZ4NotFound", hashes |-> EmptyMap, temps |-> temps]
       ELSE [err |-> "",
             hashes |-> extractHashesFromStructuredData(snapshots[lz4Path.v], 1, EmptyMap),
             temps |-> temps]

\* StatusManager.extractHashesFromTempZip: a later entry of the same name
\* overwrites an earlier one; the bytes bspatch wrote from a foreign base do
\* not open as an archive
RECURSIVE extractHashesFromTempZip(_, _)
extractHashesFromTempZip(zip, fileHashes) ==
    IF Len(zip) = 0 THEN fileHashes
    ELSE extractHashesFromTempZip(Tail(zip),
            [p \in (DOMAIN fileHashes) \cup {zip[1].name} |->
                IF p = zip[1].name THEN zip[1].data ELSE fileHashes[p]])

\* StatusManager.extractHashesFromDeltaChain
extractHashesFromDeltaChain(targetVersion, ioError) ==
    LET plan == findRestorationPath(targetVersion)
        tempFile == TempStatusFile(targetVersion)
    IN IF plan.err # ""
       THEN [err |-> plan.err, hashes |-> EmptyMap, temps |-> temps]
       ELSE LET r == executeRestorationPath(plan.path, ioError)
            IN IF r.err # ""
               THEN [err |-> r.err, hashes |-> EmptyMap,
                     temps |-> (temps \cup r.left) \ {tempFile}]
               ELSE IF r.zip = GarbageZip
               THEN [err |-> "OpenTempZipFailed", hashes |-> EmptyMap,
                     temps |-> temps \ {tempFile}]
               ELSE [err |-> "", hashes |-> extractHashesFromTempZip(r.zip, EmptyMap),
                     temps |-> temps \ {tempFile}]

\* StatusManager.GetSnapshotFileHashes; logManager.GetCommit reads
\* commits/v<N>.json, every record of the model carries a CompressionInfo;
\* ioError is the I/O error that strikes the call
GetSnapshotFileHashes(commitVersion, ioError) ==
    IF commitVersion \notin DOMAIN commits
    THEN [err |-> "", hashes |-> EmptyMap, temps |-> temps]
    ELSE LET info == commits[commitVersion].compression_info
         IN CASE info.Strategy = "lz4" ->
                    extractHashesFromLZ4(info.OutputFile, commitVersion)
              [] info.Strategy \in {"bsdiff", "xdelta3", "psd_smart"} ->
                    extractHashesFromDeltaChain(commitVersion, ioError)
              [] OTHER -> [err |-> "", hashes |-> EmptyMap, temps |-> temps]

NoCompare == [err |-> "", ModifiedFiles |-> {}, UntrackedFiles |-> {}, DeletedFiles |-> {}]

\* CompareWithCommit changed to report every path of both maps as modified
CompareWithCommitIgnoringHash(commitVersion, currentDirFiles) ==
    LET h == IF commitVersion > 0 THEN GetSnapshotFileHashes(commitVersion, "none")
             ELSE [err |-> "", hashes |-> EmptyMap, temps |-> temps]
        lastCommitFileHashes == h.hashes
    IN IF h.err # ""
       THEN [NoCompare EXCEPT !.err = h.err] @@ [temps |-> h.temps]
       ELSE [err |-> "",
             ModifiedFiles |->
                 {path \in DOMAIN currentDirFiles : path \in DOMAIN lastCommitFileHashes},
             UntrackedFiles |->
                 {path \in DOMAIN currentDirFiles : path \notin DOMAIN lastCommitFileHashes},
             DeletedFiles |->
                 {path \in DOMAIN lastCommitFileHashes : path \notin DOMAIN currentDirFiles},
             temps |-> h.temps]

\* StatusManager.CompareWithCommit; the result lists are built by iterating
\* over maps, each path is appended at most once and the order is unspecified,
\* so each list is a set
CompareWithCommit(commitVersion, currentDirFiles) ==
    LET h == IF commitVersion > 0 THEN GetSnapshotFileHashes(commitVersion, "none")
             ELSE [err |-> "", hashes |-> EmptyMap, temps |-> temps]
        lastCommitFileHashes == h.hashes
    IN IF h.err # ""
       THEN [NoCompare EXCEPT !.err = h.err] @@ [temps |-> h.temps]
       ELSE [err |-> "",
             ModifiedFiles |->
                 {path \in DOMAIN currentDirFiles :
                     /\ path \in DOMAIN lastCommitFileHashes
                     /\ lastCommitFileHashes[path] # currentDirFiles[path]},
             UntrackedFiles |->
                 {path \in DOMAIN currentDirFiles : path \notin DOMAIN lastCommitFileHashes},
             DeletedFiles |->
                 {path \in DOMAIN lastCommitFileHashes : path \notin DOMAIN currentDirFiles},
             temps |-> h.temps]

(***************************************************************************)
(* CreateCommit                                                            *)
(***************************************************************************)
DeltaFaults == {"delta_zip", "delta_convert", "delta_write"}
Faults == {"none", "lz4_write", "save_meta", "update_head"} \cup DeltaFaults

\* the input validation of CreateCommit changed to accept every list
NoFilesStagedIgnored(stagedFiles) == FALSE

\* the input validation of CreateCommit: len(stagedFiles) == 0
NoFilesStaged(stagedFiles) == Len(stagedFiles) = 0

\* CreateCommit changed to write HEAD before the commit record
HeadWrittenBeforeRecord(hash) == hash

\* HEAD after saveCommitMetadata failed: CreateCommit returns before updateHead
HeadOnRecordFailure(hash) == head

Commit(hash, version, parent, files, res) ==
    [hash |-> hash, version |-> version, parent_hash |-> parent,
     files_count |-> Len(files), compression_info |-> res]

\* CommitManager.CreateCommit for the staged list StagedLists[i]; compressedSize
\* and deltaSize are the sizes the LZ4 writer and bsdiff produce, fault the
\* I/O error that strikes this call (the delta writer's bsdiff / Write, the
\* write of the commit record, or the write of HEAD); s is the result of the
\* one call of createSnapshot
CreateCommit(i, compressedSize, deltaSize, fault) ==
    LET stagedFiles == StagedLists[i]
        currentVersion == GetCurrentVersion
        newVersion == currentVersion + 1
        hash == generateCommitHash(i, newVersion)
        parent == getCurrentCommitHash
    IN \E s \in {createSnapshot(stagedFiles, newVersion, currentVersion,
                               compressedSize, deltaSize, fault)} :
       LET commit == Commit(hash, newVersion, parent, stagedFiles, s.res)
           outcome(ok, err) ==
               [ok |-> ok, err |-> err, version |-> newVersion, delta |-> s.delta,
                deltaSize |-> s.dres.CompressedSize,
                deltaOriginal |-> s.dres.OriginalSize, input |-> i,
                deltaErr |-> s.deltaErr,
                lz4Size |-> IF s.lz4 THEN compressedSize ELSE -1]
       IN
       /\ fault # "none" => faults < MaxFaults
       /\ fault = "lz4_write" => s.lz4
       /\ IF NoFilesStaged(stagedFiles)
          THEN /\ fault = "none"
               /\ last' = [NoLast EXCEPT !.err = "NoStagedFiles", !.input = i]
               /\ UNCHANGED <<commits, snapshots, deltas, head, stagedAt, faults, temps>>
          ELSE /\ currentVersion < MaxVersion
               /\ snapshots' = s.snapshots
               /\ deltas' = s.deltas
               /\ temps' = s.temps
               /\ IF s.err # ""
                  THEN /\ fault \in {"none", "lz4_write"} \cup DeltaFaults
                       /\ (fault \in DeltaFaults) = s.faulted
                       /\ last' = outcome(FALSE, s.err)
                       /\ faults' = IF fault # "none" THEN faults + 1 ELSE faults
                       /\ UNCHANGED <<commits, head, stagedAt>>
                  ELSE IF fault = "save_meta"
                  THEN /\ last' = outcome(FALSE, "CommitRecordWriteFailed")
                       /\ faults' = faults + 1
                       /\ head' = HeadOnRecordFailure(hash)
                       /\ UNCHANGED <<commits, stagedAt>>
                  ELSE /\ commits' = Put(commits, newVersion, commit)
                       /\ stagedAt' = Put(stagedAt, newVersion, i)
                       /\ IF fault = "update_head"
                          THEN /\ last' = outcome(FALSE, "HeadUpdateFailed")
                               /\ faults' = faults + 1
                               /\ UNCHANGED head
                          ELSE /\ (fault \in DeltaFaults) = s.faulted
                               /\ head' = hash
                               /\ last' = outcome(TRUE, "")
                               /\ faults' = IF s.faulted THEN faults + 1 ELSE faults
       /\ status' = NoStatus
       /\ optTasks' = IF enableBackgroundOpt /\ last'.ok /\ s.res.Strategy = "lz4"
                      THEN Put(optTasks, newVersion, "sleep")
                      ELSE optTasks
       /\ UNCHANGED <<objects, codecVars, selVars, cache, optimized, enableBackgroundOpt,
                   layVars>>

(***************************************************************************)
(* The repository specification                                            *)
(***************************************************************************)
Init ==
    /\ commits = <<>>
    /\ snapshots = <<>>
    /\ deltas = <<>>
    /\ objects = <<>>
    /\ head = EmptyHead
    /\ stagedAt = <<>>
    /\ last = NoLast
    /\ faults = 0
    /\ temps = {}
    /\ status = NoStatus
    /\ codecIn = <<>>
    /\ codecPrefix = <<>>
    /\ codecStream = <<>>
    /\ codecOut = <<>>
    /\ codecPc = "idle"
    /\ selFiles = <<>>
    /\ selVersion = 0
    /\ selPath = "idle"
    /\ cache = <<>>
    /\ optimized = <<>>
    /\ optTasks = <<>>
    /\ enableBackgroundOpt = FALSE
    /\ oldLayers = <<>>
    /\ newLayers = <<>>
    /\ analysis = NoAnalysis

\* the delta writer runs for this staged list and finds its base
DeltaComputed(files) ==
    LET currentVersion == GetCurrentVersion
    IN /\ ~shouldUseLZ4(files, currentVersion + 1)
       /\ currentVersion >= 1
       /\ ~shouldCreateNewSnapshot(currentVersion)
       /\ findVersionInStorage(currentVersion) # NoPath

\* the I/O errors that can strike a call in the current state
FaultsNow(files) ==
    IF faults >= MaxFaults THEN {"none"}
    ELSE IF DeltaComputed(files) THEN Faults
    ELSE Faults \ DeltaFaults

\* the patch sizes to consider: one value when no patch is computed
DeltaSizesNow(files) ==
    IF DeltaComputed(files) THEN DeltaSizes(SumSize(files)) ELSE {0}

\* the sizes of the LZ4 file to consider: 0 when the writes of the LZ4
\* writer fail
LZ4SizesNow(files, fault) ==
    IF fault = "lz4_write" THEN {0} ELSE CompressedSizes(files)

\* a call of CreateCommit with one of the staged lists lists
CommitWith(lists) ==
    \E i \in lists :
        \E fault \in FaultsNow(StagedLists[i]) :
            \E compressedSize \in LZ4SizesNow(StagedLists[i], fault),
               deltaSize \in DeltaSizesNow(StagedLists[i]) :
                CreateCommit(i, compressedSize, deltaSize, fault)

\* the staged lists of which the snapshot writer can store a snapshot; a call
\* with any other list adds no version
StorableLists ==
    {i \in ReadableLists :
        \E c \in CompressedSizes(StagedLists[i]) :
            /\ SumContentLen(StagedLists[i]) > 0
            /\ c * 10 <= ExpansionLimitTenths * SumContentLen(StagedLists[i])}

\* long histories of the lists that can be stored
Next == CommitWith(StorableLists)

Spec == Init /\ [][Next]_vars

(***************************************************************************)
(* The wide specification: histories of up to MaxWideVersion versions with *)
(* every staged list, interleaved with the read-side queries of            *)
(* StatusManager                                                           *)
(***************************************************************************)
\* working trees: path -> content maps handed to CompareWithCommit
WorkingTrees ==
    { (fPsd.Path :> fPsd.content) @@ (fBig.Path :> fBig.content),
      (fPsd.Path :> Bytes("q", 7)) @@ (<<"n", ".", "t", "x", "t">> :> <<"n">>),
      (fTxt.Path :> fTxt.content) @@ (fEmpty.Path :> fEmpty.content) }

WideCommit ==
    /\ GetCurrentVersion < MaxWideVersion
    /\ CommitWith(ReadableLists)

\* the call restores a delta chain, so that a patch is applied
PatchApplied(commitVersion) ==
    /\ commitVersion \in DOMAIN commits
    /\ commits[commitVersion].compression_info.Strategy = "bsdiff"
    /\ findRestorationPath(commitVersion).err = ""
    /\ Len(findRestorationPath(commitVersion).path) > 1

\* the I/O errors that can strike a call of GetSnapshotFileHashes
StatusFaultsNow(commitVersion) ==
    IF faults < MaxFaults /\ PatchApplied(commitVersion)
    THEN {"none", "patch_apply"}
    ELSE {"none"}

\* a call of GetSnapshotFileHashes(commitVersion)
StatusHashes ==
    \E commitVersion \in 0..(GetCurrentVersion + 1) :
        \E ioError \in StatusFaultsNow(commitVersion) :
            \E h \in {GetSnapshotFileHashes(commitVersion, ioError)} :
                /\ status' = [op |-> "hashes", v |-> commitVersion, err |-> h.err,
                              hashes |-> h.hashes, io |-> ioError]
                /\ temps' = h.temps
                /\ faults' = IF ioError = "none" THEN faults ELSE faults + 1
                /\ UNCHANGED <<commits, snapshots, deltas, objects, head, stagedAt, last,
                               codecVars, selVars, optVars, layVars>>

\* a call of CompareWithCommit(commitVersion, currentDirFiles)
StatusCompare ==
    \E commitVersion \in {0, GetCurrentVersion}, currentDirFiles \in WorkingTrees :
        \E c \in {CompareWithCommit(commitVersion, currentDirFiles)} :
            /\ status' = [op |-> "compare", v |-> commitVersion, tree |-> currentDirFiles,
                          err |-> c.err, ModifiedFiles |-> c.ModifiedFiles,
                          UntrackedFiles |-> c.UntrackedFiles,
                          DeletedFiles |-> c.DeletedFiles]
            /\ temps' = c.temps
            /\ UNCHANGED <<commits, snapshots, deltas, objects, head, stagedAt, last,
                           faults, codecVars, selVars, optVars, layVars>>

\* a restart of the program: NewCommitManager makes sure the directories
\* exist and loads the configuration; it reads and writes no artifact, no
\* record and no HEAD, and the results held in memory are gone; the
\* goroutines of the process that ended are gone with it
NewCommitManager ==
    /\ last' = NoLast
    /\ status' = [op |-> "startup"]
    /\ optTasks' = <<>>
    /\ enableBackgroundOpt' = FALSE
    /\ UNCHANGED <<commits, snapshots, deltas, objects, head, stagedAt, faults, temps,
                   codecVars, selVars, cache, optimized, layVars>>

\* a call of CreateCommit with a staged list that holds an unreadable file;
\* no other I/O error strikes
SkipCommit ==
    /\ GetCurrentVersion < MaxSkipVersion
    /\ \E i \in SkipLists :
          \E compressedSize \in CompressedSizes(StagedLists[i]),
             deltaSize \in DeltaSizesNow(StagedLists[i]) :
              CreateCommit(i, compressedSize, deltaSize, "none")

NextSkip == SkipCommit \/ StatusHashes

\* histories of staged lists with unreadable files
SpecSkip == Init /\ [][NextSkip]_vars

NextWide == WideCommit \/ StatusHashes \/ StatusCompare \/ NewCommitManager

SpecWide == Init /\ [][NextWide]_vars

(***************************************************************************)
(* The codec specification: write a list of files as a structured stream,  *)
(* then decode it                                                          *)
(***************************************************************************)
CodecPaths == {<<"a">>, <<"c", ":", "d">>}
CodecContents == {<<>>, <<"x">>, <<"x", NL, "y">>}
CodecFiles == {StagedFile(p, Len(c), c, TRUE) : p \in CodecPaths, c \in CodecContents}

RECURSIVE ListsUpTo(_)
ListsUpTo(n) ==
    IF n = 0 THEN {<<>>}
    ELSE LET shorter == ListsUpTo(n - 1)
         IN shorter \cup {Append(l, f) : l \in {x \in shorter : Len(x) = n - 1}, f \in CodecFiles}

InitCodec ==
    /\ commits = <<>>
    /\ snapshots = <<>>
    /\ deltas = <<>>
    /\ objects = <<>>
    /\ head = EmptyHead
    /\ stagedAt = <<>>
    /\ last = NoLast
    /\ faults = 0
    /\ temps = {}
    /\ status = NoStatus
    /\ codecIn \in ListsUpTo(MaxCodecFiles)
    /\ codecPrefix = <<>>
    /\ codecStream = <<>>
    /\ codecOut = <<>>
    /\ codecPc = "start"
    /\ selFiles = <<>>
    /\ selVersion = 0
    /\ selPath = "idle"
    /\ cache = <<>>
    /\ optimized = <<>>
    /\ optTasks = <<>>
    /\ enableBackgroundOpt = FALSE
    /\ oldLayers = <<>>
    /\ newLayers = <<>>
    /\ analysis = NoAnalysis

\* the write loop of compressWithLZ4 over codecIn
CodecWrite ==
    /\ codecPc = "start"
    /\ codecStream' = StructuredStream(codecIn)
    /\ codecPc' = "encoded"
    /\ UNCHANGED <<codecIn, codecPrefix, codecOut, repoVars, selVars, optVars, layVars>>

\* bytes of an older producer that do not begin with FILE:
CodecPrefixes == {<<"x">>, <<"x", NL>>}

\* a stream in which such bytes precede the records of codecIn
CodecWritePrefixed ==
    /\ codecPc = "start"
    /\ \E prefix \in CodecPrefixes :
          /\ codecPrefix' = prefix
          /\ codecStream' = prefix \o StructuredStream(codecIn)
    /\ codecPc' = "encoded"
    /\ UNCHANGED <<codecIn, codecOut, repoVars, selVars, optVars, layVars>>

\* the decoder of the commit side
CodecDecodeCommit ==
    /\ codecPc = "encoded"
    /\ codecOut' = parseStructuredDataToZip(codecStream, 1, <<>>)
    /\ codecPc' = "decoded"
    /\ UNCHANGED <<codecIn, codecPrefix, codecStream, repoVars, selVars, optVars, layVars>>

\* the decoder of the status side
CodecDecodeStatus ==
    /\ codecPc = "encoded"
    /\ codecOut' = convertLZ4ToZip(codecStream, 1, <<>>)
    /\ codecPc' = "decoded"
    /\ UNCHANGED <<codecIn, codecPrefix, codecStream, repoVars, selVars, optVars, layVars>>

NextCodec == CodecWrite \/ CodecWritePrefixed \/ CodecDecodeCommit \/ CodecDecodeStatus

SpecCodec == InitCodec /\ [][NextCodec]_vars

(***************************************************************************)
(* The selector specification: the strategy decision of createSnapshot for *)
(* a staged list and a version, on a repository without legacy archives    *)
(***************************************************************************)
SelPool ==
    { StagedFile(<<"t", ".", "t", "x", "t">>, 100, <<"t">>, TRUE),
      StagedFile(<<"d", ".", "p", "s", "d">>, 100, <<"d">>, TRUE),
      StagedFile(<<"D", ".", "P", "s", "D">>, 100, <<"D">>, TRUE),
      StagedFile(<<"i", ".", "a", "i">>, 100, <<"i">>, TRUE),
      StagedFile(<<"k", ".", "s", "k", "e", "t", "c", "h">>, 100, <<"k">>, TRUE),
      StagedFile(<<"m", ".", "b", "i", "n">>, SmallFileThreshold, <<"m">>, TRUE),
      StagedFile(<<"n", ".", "b", "i", "n">>, SmallFileThreshold + 1, <<"n">>, TRUE),
      StagedFile(<<"v", ".", "b", "i", "n">>, VeryLargeFileThreshold, <<"v">>, TRUE),
      StagedFile(<<"w", ".", "b", "i", "n">>, VeryLargeFileThreshold + 1, <<"w">>, TRUE) }

RECURSIVE SelListsUpTo(_)
SelListsUpTo(n) ==
    IF n = 0 THEN {<<>>}
    ELSE LET shorter == SelListsUpTo(n - 1)
         IN shorter \cup {Append(l, f) : l \in {x \in shorter : Len(x) = n - 1}, f \in SelPool}

InitSel ==
    /\ commits = <<>>
    /\ snapshots = <<>>
    /\ deltas = <<>>
    /\ objects = <<>>
    /\ head = EmptyHead
    /\ stagedAt = <<>>
    /\ last = NoLast
    /\ faults = 0
    /\ temps = {}
    /\ status = NoStatus
    /\ codecIn = <<>>
    /\ codecPrefix = <<>>
    /\ codecStream = <<>>
    /\ codecOut = <<>>
    /\ codecPc = "idle"
    /\ selFiles \in SelListsUpTo(MaxSelFiles)
    /\ selVersion \in 1..(MaxVersion + 1)
    /\ selPath = "start"
    /\ cache = <<>>
    /\ optimized = <<>>
    /\ optTasks = <<>>
    /\ enableBackgroundOpt = FALSE
    /\ oldLayers = <<>>
    /\ newLayers = <<>>
    /\ analysis = NoAnalysis

\* the branch createSnapshot takes for files at version after prevVersion
SelectorPath(files, version, prevVersion) ==
    IF shouldUseLZ4(files, version) THEN "full"
    ELSE IF version > 1 /\ ~shouldCreateNewSnapshot(prevVersion) THEN "delta"
    ELSE "full"

\* createSnapshot up to its choice between createDelta and compressWithLZ4
Select ==
    /\ selPath = "start"
    /\ selPath' = SelectorPath(selFiles, selVersion, selVersion - 1)
    /\ UNCHANGED <<selFiles, selVersion, repoVars, codecVars, optVars, layVars>>

NextSel == Select

SpecSel == InitSel /\ [][NextSel]_vars

(***************************************************************************)
(* The planner specification: the restoration of a target version on a     *)
(* repository directory that holds any set of snapshots, legacy archives   *)
(* and delta files of the versions 1..MaxPlanVersion, and at most one      *)
(* deltas/v<N>.lz4 and one deltas/v<N>_optimized.zstd                      *)
(***************************************************************************)
PlanFiles == <<fPsd>>
\* the subsets of S with at most one element
AtMostOne(S) == {{}} \cup {{x} : x \in S}

InitPlan ==
    /\ commits = <<>>
    /\ snapshots \in {[v \in S |-> StructuredStream(PlanFiles)] : S \in SUBSET (1..MaxPlanVersion)}
    /\ objects \in {[v \in S |-> createTempZipFile(PlanFiles)] : S \in SUBSET (1..MaxPlanVersion)}
    /\ deltas \in {[v \in S |-> bsdiffBytes(createTempZipFile(PlanFiles),
                                             createTempZipFile(PlanFiles))] :
                      S \in SUBSET (1..MaxPlanVersion)}
    /\ head = EmptyHead
    /\ stagedAt = <<>>
    /\ last = NoLast
    /\ faults = 0
    /\ temps = {}
    /\ status = NoStatus
    /\ codecIn = <<>>
    /\ codecPrefix = <<>>
    /\ codecStream = <<>>
    /\ codecOut = <<>>
    /\ codecPc = "idle"
    /\ selFiles = <<>>
    /\ selVersion = 0
    /\ selPath = "idle"
    /\ cache \in {[v \in S |-> StructuredStream(PlanFiles)] : S \in AtMostOne(1..MaxPlanVersion)}
    /\ optimized \in {[v \in S |-> [data |-> StructuredStream(PlanFiles), complete |-> TRUE]] :
                         S \in AtMostOne(1..MaxPlanVersion)}
    /\ optTasks = <<>>
    /\ enableBackgroundOpt = FALSE
    /\ oldLayers = <<>>
    /\ newLayers = <<>>
    /\ analysis = NoAnalysis

\* a call of extractHashesFromDeltaChain(targetVersion): findRestorationPath,
\* then executeRestorationPath on the plan it returned
RestoreChain ==
    /\ status = NoStatus
    /\ \E targetVersion \in 1..MaxPlanVersion :
          \E plan \in {findRestorationPath(targetVersion)},
             h \in {extractHashesFromDeltaChain(targetVersion, "none")} :
              \E r \in {IF plan.err = "" THEN executeRestorationPath(plan.path, "none")
                          ELSE Restore(targetVersion)} :
                  /\ status' = [op |-> "plan", v |-> targetVersion, planErr |-> plan.err,
                                missing |-> plan.missing,
                                path |-> plan.path, err |-> h.err, bases |-> r.bases,
                                applied |-> r.applied]
                  /\ temps' = h.temps
    /\ UNCHANGED <<commits, snapshots, deltas, objects, head, stagedAt, last, faults,
                   codecVars, selVars, optVars, layVars>>

NextPlan == RestoreChain

SpecPlan == InitPlan /\ [][NextPlan]_vars

(***************************************************************************)
(* The background optimisation (part_000 329-332, 630-673): CreateCommit   *)
(* starts one goroutine per successful LZ4 commit when the field           *)
(* enableBackgroundOpt is set; the goroutine sleeps, opens the snapshot,   *)
(* creates deltas/v<N>_optimized.zstd and streams the re-encoded content   *)
(* into it.  Its steps interleave with the calls of the main goroutine.    *)
(***************************************************************************)
\* what os.Create leaves at cachePath before anything is copied
PartialOptimized == [data |-> <<>>, complete |-> FALSE]

InitOpt ==
    /\ commits = <<>>
    /\ snapshots = <<>>
    /\ deltas = <<>>
    /\ objects = <<>>
    /\ head = EmptyHead
    /\ stagedAt = <<>>
    /\ last = NoLast
    /\ faults = 0
    /\ temps = {}
    /\ status = NoStatus
    /\ codecIn = <<>>
    /\ codecPrefix = <<>>
    /\ codecStream = <<>>
    /\ codecOut = <<>>
    /\ codecPc = "idle"
    /\ selFiles = <<>>
    /\ selVersion = 0
    /\ selPath = "idle"
    /\ cache = <<>>
    /\ optimized = <<>>
    /\ optTasks = <<>>
    /\ enableBackgroundOpt = TRUE
    /\ oldLayers = <<>>
    /\ newLayers = <<>>
    /\ analysis = NoAnalysis

\* a call of CreateCommit by the main goroutine
OptCommit ==
    /\ GetCurrentVersion < MaxOptVersion
    /\ CommitWith({1, 2})

\* optimizeToCache(version, result) after the sleep, up to zstd.NewWriter:
\* os.Open of the snapshot, then os.Create of the optimized file; an error
\* of os.Open or os.Create ends the goroutine without a file
OptimizeOpen(version) ==
    /\ version \in DOMAIN optTasks
    /\ optTasks[version] = "sleep"
    /\ \E opened \in BOOLEAN :
          IF opened /\ fileExists(SnapshotPath(version))
          THEN /\ optimized' = Put(optimized, version, PartialOptimized)
               /\ optTasks' = Put(optTasks, version, "copy")
          ELSE /\ optTasks' = Remove(optTasks, version)
               /\ UNCHANGED optimized
    /\ UNCHANGED <<repoVars, codecVars, selVars, cache, enableBackgroundOpt, layVars>>

\* io.Copy(zstdWriter, lz4Reader) and zstdWriter.Close(): the whole stream
\* is written, or an error, which is ignored, leaves the file as it is
OptimizeCopy(version) ==
    /\ version \in DOMAIN optTasks
    /\ optTasks[version] = "copy"
    /\ \E copied \in BOOLEAN :
          optimized' = IF copied /\ fileExists(SnapshotPath(version))
                       THEN Put(optimized, version,
                                [data |-> snapshots[version], complete |-> TRUE])
                       ELSE optimized
    /\ optTasks' = Remove(optTasks, version)
    /\ UNCHANGED <<repoVars, codecVars, selVars, cache, enableBackgroundOpt, layVars>>

NextOpt ==
    \/ OptCommit
    \/ StatusHashes
    \/ \E version \in DOMAIN optTasks : OptimizeOpen(version)
    \/ \E version \in DOMAIN optTasks : OptimizeCopy(version)

SpecOpt == InitOpt /\ [][NextOpt]_vars

(***************************************************************************)
(* Layered-document change analyzer (part_000 1317-1448): the comparison   *)
(* of the layer lists of two versions of a document.  A layer is the       *)
(* photoshop.DetailedLayer the scanner supplies.                           *)
(***************************************************************************)
DetailedLayer(id, name, hash, opacity, visible, blend, position) ==
    [ID |-> id, Name |-> name, ContentHash |-> hash, Opacity |-> opacity,
     Visible |-> visible, BlendMode |-> blend, Position |-> position]

\* the layers the lists are built of: three states of a layer named A, a
\* second layer of the same name, and a layer named B
LayerPool ==
    { DetailedLayer(1, "A", "h1", 100, TRUE, "normal", <<0, 0>>),
      DetailedLayer(1, "A", "h2", 50, TRUE, "normal", <<0, 0>>),
      DetailedLayer(1, "A", "h1", 50, FALSE, "normal", <<0, 0>>),
      DetailedLayer(2, "A", "h3", 100, FALSE, "multiply", <<1, 0>>),
      DetailedLayer(3, "B", "h1", 100, TRUE, "normal", <<0, 0>>) }

LayerListsUpTo(n) == UNION {[1..k -> LayerPool] : k \in 0..n}

\* the map built by "for _, layer := range layers { m[layer.Name] = layer }":
\* a later layer overwrites an earlier one of the same name
LayerMap(layers) ==
    [n \in {layers[k].Name : k \in 1..Len(layers)} |->
        layers[CHOOSE k \in 1..Len(layers) :
                  /\ layers[k].Name = n
                  /\ \A j \in (k + 1)..Len(layers) : layers[j].Name # n]]

LayerChange(id, name, type, oldHash, newHash, changes) ==
    [LayerID |-> id, LayerName |-> name, ChangeType |-> type, OldHash |-> oldHash,
     NewHash |-> newHash, PropertyChanges |-> changes]

OldNew(old, new) == [old |-> old, new |-> new]

\* detectPropertyChanges changed to record the four properties always
detectPropertyChangesAll(oldLayer, newLayer) ==
    [k \in {"opacity", "visibility", "blend_mode", "position"} |->
        CASE k = "opacity" -> OldNew(oldLayer.Opacity, newLayer.Opacity)
          [] k = "visibility" -> OldNew(oldLayer.Visible, newLayer.Visible)
          [] k = "blend_mode" -> OldNew(oldLayer.BlendMode, newLayer.BlendMode)
          [] k = "position" -> OldNew(oldLayer.Position, newLayer.Position)]

\* CommitManager.detectPropertyChanges
detectPropertyChanges(oldLayer, newLayer) ==
    LET opacity == IF oldLayer.Opacity # newLayer.Opacity
                   THEN "opacity" :> OldNew(oldLayer.Opacity, newLayer.Opacity)
                   ELSE EmptyMap
        visibility == IF oldLayer.Visible # newLayer.Visible
                      THEN "visibility" :> OldNew(oldLayer.Visible, newLayer.Visible)
                      ELSE EmptyMap
        blend_mode == IF oldLayer.BlendMode # newLayer.BlendMode
                      THEN "blend_mode" :> OldNew(oldLayer.BlendMode, newLayer.BlendMode)
                      ELSE EmptyMap
        position == IF oldLayer.Position # newLayer.Position
                    THEN "position" :> OldNew(oldLayer.Position, newLayer.Position)
                    ELSE EmptyMap
    IN opacity @@ visibility @@ blend_mode @@ position

\* CommitManager.generateChangesSummary: the parts of the sentence
generateChangesSummary(changed, added, deleted) ==
    LET totalChanges == changed + added + deleted
    IN IF totalChanges = 0 THEN <<"No layer changes detected">>
       ELSE <<<<totalChanges, "layer(s) changed">>>>
            \o (IF added > 0 THEN <<<<added, "added">>>> ELSE <<>>)
            \o (IF deleted > 0 THEN <<<<deleted, "deleted">>>> ELSE <<>>)
            \o (IF changed > 0 THEN <<<<changed, "modified">>>> ELSE <<>>)

\* CommitManager.compareLayerVersions
compareLayerVersions(oldL, newL) ==
    LET oldLayerMap == LayerMap(oldL)
        newLayerMap == LayerMap(newL)
        addedFrom == SelectSeq(newL, LAMBDA l : l.Name \notin DOMAIN oldLayerMap)
        deletedFrom == SelectSeq(oldL, LAMBDA l : l.Name \notin DOMAIN newLayerMap)
        changedFrom ==
            SelectSeq(newL, LAMBDA l :
                /\ l.Name \in DOMAIN oldLayerMap
                /\ oldLayerMap[l.Name].ContentHash # l.ContentHash)
        AddedLayers ==
            [k \in 1..Len(addedFrom) |->
                LayerChange(addedFrom[k].ID, addedFrom[k].Name, "added", "",
                            addedFrom[k].ContentHash, EmptyMap)]
        DeletedLayers ==
            [k \in 1..Len(deletedFrom) |->
                LayerChange(deletedFrom[k].ID, deletedFrom[k].Name, "deleted",
                            deletedFrom[k].ContentHash, "", EmptyMap)]
        ChangedLayers ==
            [k \in 1..Len(changedFrom) |->
                LayerChange(changedFrom[k].ID, changedFrom[k].Name, "modified",
                            oldLayerMap[changedFrom[k].Name].ContentHash,
                            changedFrom[k].ContentHash,
                            detectPropertyChanges(oldLayerMap[changedFrom[k].Name],
                                                  changedFrom[k]))]
    IN [TotalLayers |-> Len(newL),
        ChangedLayers |-> ChangedLayers,
        AddedLayers |-> AddedLayers,
        DeletedLayers |-> DeletedLayers,
        UnchangedCount |-> Len(newL) - Len(ChangedLayers) - Len(AddedLayers),
        ChangesSummary |-> generateChangesSummary(Len(ChangedLayers), Len(AddedLayers),
                                                  Len(DeletedLayers))]

InitLayers ==
    /\ commits = <<>>
    /\ snapshots = <<>>
    /\ deltas = <<>>
    /\ objects = <<>>
    /\ head = EmptyHead
    /\ stagedAt = <<>>
    /\ last = NoLast
    /\ faults = 0
    /\ temps = {}
    /\ status = NoStatus
    /\ codecIn = <<>>
    /\ codecPrefix = <<>>
    /\ codecStream = <<>>
    /\ codecOut = <<>>
    /\ codecPc = "idle"
    /\ selFiles = <<>>
    /\ selVersion = 0
    /\ selPath = "idle"
    /\ cache = <<>>
    /\ optimized = <<>>
    /\ optTasks = <<>>
    /\ enableBackgroundOpt = FALSE
    /\ oldLayers \in LayerListsUpTo(MaxLayers)
    /\ newLayers \in LayerListsUpTo(MaxLayers)
    /\ analysis = NoAnalysis

\* a call of compareLayerVersions(oldLayers, newLayers)
Analyze ==
    /\ analysis = NoAnalysis
    /\ analysis' = compareLayerVersions(oldLayers, newLayers)
    /\ UNCHANGED <<oldLayers, newLayers, repoVars, codecVars, selVars, optVars>>

NextLayers == Analyze

SpecLayers == InitLayers /\ [][NextLayers]_vars

(***************************************************************************)
(* Properties                                                              *)
(***************************************************************************)
StrategyOf(v) == commits[v].compression_info.Strategy
StagedOf(v) == StagedLists[stagedAt[v]]

\* C1: for every version with a commit record, the archive the restoration
\* path (plan, then execute) materialises holds exactly the readable staged
\* files of that commit, path for path and byte for byte.
C1_RestoreYieldsCommittedFiles ==
    \A v \in DOMAIN commits :
        LET r == Restore(v)
        IN /\ r.err = ""
           /\ ZipFileSet(r.zip) = FileSetOf(StagedOf(v))

\* C2: the versions with a commit record are exactly 1..n, each record carries
\* its own version, current_version() is n, and a call that adds a record
\* adds exactly version (max existing) + 1.
C2_VersionsContiguous ==
    /\ [](LET n == Cardinality(DOMAIN commits)
          IN /\ DOMAIN commits = 1..n
             /\ GetCurrentVersion = n
             /\ \A v \in DOMAIN commits : commits[v].version = v)
    /\ [][commits' # commits =>
            /\ DOMAIN commits' = (DOMAIN commits) \cup {SetMax(DOMAIN commits) + 1}
            /\ \A v \in DOMAIN commits : commits'[v] = commits[v]]_vars

C2_Witness ==
    /\ Cardinality(DOMAIN commits) >= 3
    /\ faults >= 1
    /\ last.ok

\* C3: HEAD is the hash of the record of the largest version, and HEAD is
\* empty exactly when there is no record.
C3_HeadIsLatest ==
    /\ (head = EmptyHead) <=> (DOMAIN commits = {})
    /\ DOMAIN commits # {} => head = commits[SetMax(DOMAIN commits)].hash

\* C4: every version with a commit record has exactly one primary artifact,
\* the snapshot or the delta, never both and never neither.
C4_ExactlyOneArtifact ==
    \A v \in DOMAIN commits :
        (fileExists(SnapshotPath(v)) /\ ~fileExists(DeltaPath(v, v - 1)))
        \/ (~fileExists(SnapshotPath(v)) /\ fileExists(DeltaPath(v, v - 1)))

\* C5: a record with a delta strategy has base_version = version - 1, names
\* deltas/v<N>_from_v<B> as its artifact, that file exists, and version B has
\* an artifact, in every state from the write of the delta on.
C5_DeltaBase ==
    \A v \in DOMAIN commits :
        StrategyOf(v) = "bsdiff" =>
            LET b == commits[v].compression_info.BaseVersion
            IN /\ b = v - 1
               /\ b >= 1
               /\ b < v
               /\ commits[v].compression_info.OutputFile = Base(DeltaPath(v, b))
               /\ fileExists(DeltaPath(v, b))
               /\ findVersionInStorage(b) # NoPath

C5_Witness ==
    \E v \in DOMAIN commits :
        /\ StrategyOf(v) = "bsdiff"
        /\ GetCurrentVersion >= v + 2

\* number of base_version links from v to a record that is not a delta
RECURSIVE ChainHops(_)
ChainHops(v) ==
    IF v \notin DOMAIN commits THEN 0
    ELSE IF StrategyOf(v) = "bsdiff"
    THEN 1 + ChainHops(commits[v].compression_info.BaseVersion)
    ELSE 0

RECURSIVE ChainRoot(_)
ChainRoot(v) ==
    IF v \notin DOMAIN commits THEN v
    ELSE IF StrategyOf(v) = "bsdiff"
    THEN ChainRoot(commits[v].compression_info.BaseVersion)
    ELSE v

\* C6: the base_version links from any committed version end at a full
\* snapshot after at most MaxChainLength hops, and a commit made when the
\* chain length the engine computes for the previous version has reached
\* MaxChainLength is stored as a full snapshot.
C6_ChainBounded ==
    /\ [](\A v \in DOMAIN commits :
            /\ ChainHops(v) <= MaxDeltaChainLength
            /\ ChainRoot(v) \in DOMAIN commits
            /\ StrategyOf(ChainRoot(v)) = "lz4"
            /\ fileExists(SnapshotPath(ChainRoot(v))))
    /\ [][(commits' # commits
           /\ getDeltaChainLength(SetMax(DOMAIN commits)) >= MaxDeltaChainLength) =>
             commits'[SetMax(DOMAIN commits) + 1].compression_info.Strategy = "lz4"]_vars

C6_Witness ==
    /\ MaxDeltaChainLength + 1 \in DOMAIN commits
    /\ ~shouldUseLZ4(StagedOf(MaxDeltaChainLength + 1), MaxDeltaChainLength + 1)
    /\ StrategyOf(MaxDeltaChainLength + 1) = "lz4"
    /\ \E v \in DOMAIN commits : StrategyOf(v) = "bsdiff"

\* C7: after a commit that resolved to a full snapshot, the chain length the
\* engine computes for the head version is 0.
C7_ChainRestartsAtFull ==
    (last.ok /\ StrategyOf(last.version) = "lz4") =>
        getDeltaChainLength(GetCurrentVersion) = 0

\* C8: a commit whose staged list holds a file larger than 100 MiB, at any
\* position, is stored as a full snapshot.
C8_LargeFileForcesFull ==
    last.ok =>
        ((\E k \in 1..Len(StagedOf(last.version)) :
              StagedOf(last.version)[k].Size > 100 * 1024 * 1024)
         => StrategyOf(last.version) = "lz4")

C10_CodecRoundTrip ==
    (codecPc = "decoded" /\ codecPrefix = <<>>) =>
        codecOut = [k \in 1..Len(codecIn) |-> ZipEntry(codecIn[k].Path, codecIn[k].content)]

\* C11: decoding a stream of prefix bytes that do not begin with FILE:,
\* followed by the records of a list of files, yields exactly those records.
C11_PrefixSkipped ==
    (codecPc = "decoded" /\ codecPrefix # <<>>) =>
        codecOut = [k \in 1..Len(codecIn) |-> ZipEntry(codecIn[k].Path, codecIn[k].content)]

\* the (path, hash) pairs of a hash map
MapPairs(fileHashes) == {<<path, fileHashes[path]>> : path \in DOMAIN fileHashes}

\* C12: for a version with a commit record, GetSnapshotFileHashes, when no
\* I/O error strikes, returns without error the map whose (path, hash) pairs are exactly the entries of
\* the archive the restoration path yields for that version, for a snapshot
\* record as for a delta record.
C12_HashesMatchRestore ==
    (status.op = "hashes" /\ status.v \in DOMAIN commits /\ status.io = "none") =>
        LET r == Restore(status.v)
        IN /\ r.err = ""
           /\ status.err = ""
           /\ MapPairs(status.hashes) = ZipFileSet(r.zip)

C12_Witness ==
    /\ status.op = "hashes"
    /\ status.v \in DOMAIN commits
    /\ StrategyOf(status.v) = "bsdiff"
    /\ status.hashes # EmptyMap
    /\ \E v \in DOMAIN commits : StrategyOf(v) = "lz4"

\* C13: the sets CompareWithCommit returns are pairwise disjoint; a path is
\* modified iff both maps hold it with different hashes, untracked iff only
\* the working tree holds it, deleted iff only the version holds it; with
\* commit version 0 every path of the working tree is untracked.
C13_CompareSets ==
    (status.op = "compare" /\ status.err = "") =>
        LET V == IF status.v > 0 THEN GetSnapshotFileHashes(status.v, "none").hashes
                 ELSE EmptyMap
            W == status.tree
            M == status.ModifiedFiles
            U == status.UntrackedFiles
            D == status.DeletedFiles
        IN /\ M \cap U = {}
           /\ M \cap D = {}
           /\ U \cap D = {}
           /\ M \cup U \cup D \subseteq (DOMAIN V) \cup (DOMAIN W)
           /\ \A path \in (DOMAIN V) \cup (DOMAIN W) :
                /\ path \in M <=> (/\ path \in DOMAIN V
                                   /\ path \in DOMAIN W
                                   /\ V[path] # W[path])
                /\ path \in U <=> (path \in DOMAIN W /\ path \notin DOMAIN V)
                /\ path \in D <=> (path \in DOMAIN V /\ path \notin DOMAIN W)
           /\ status.v = 0 => (U = DOMAIN W /\ M = {} /\ D = {})

C13_Witness ==
    /\ status.op = "compare"
    /\ status.err = ""
    /\ status.v > 0
    /\ status.ModifiedFiles # {}
    /\ status.UntrackedFiles # {}
    /\ status.DeletedFiles # {}

\* C14: the writes of a commit happen in the order artifact, record, HEAD: a
\* record exists only with the complete artifact it names, HEAD changes only
\* in a call that wrote a record and then names that record, and HEAD never
\* holds a hash without a record.
C14_WriteOrder ==
    /\ [](/\ \A v \in DOMAIN commits :
               /\ StrategyOf(v) = "lz4" =>
                       /\ fileExists(SnapshotPath(v))
                       /\ commits[v].compression_info.OutputFile = Base(SnapshotPath(v))
               /\ StrategyOf(v) = "bsdiff" =>
                       /\ fileExists(DeltaPath(v, v - 1))
                       /\ deltas[v].complete
               /\ StrategyOf(v) \in {"lz4", "bsdiff"}
          /\ head # EmptyHead => \E v \in DOMAIN commits : commits[v].hash = head)
    /\ [][head' # head =>
            /\ commits' # commits
            /\ head' = commits'[SetMax(DOMAIN commits')].hash]_vars

C14_Witness ==
    /\ last.err = "CommitRecordWriteFailed"
    /\ last.version >= 2
    /\ last.version \notin DOMAIN commits
    /\ fileExists(SnapshotPath(last.version)) \/ fileExists(DeltaPath(last.version, last.version - 1))
    /\ head = commits[last.version - 1].hash

\* C15: the record of version 1 has an empty parent_hash and the record of
\* every version N > 1 has the hash of the record of version N - 1 as its
\* parent_hash, also after calls that returned an error.
C15_LinearHistory ==
    \A v \in DOMAIN commits :
        /\ v = 1 => commits[v].parent_hash = EmptyHead
        /\ v > 1 => /\ v - 1 \in DOMAIN commits
                    /\ commits[v].parent_hash = commits[v - 1].hash

\* C16: a call of CreateCommit that returns an error leaves the repository
\* as it was: records, artifacts, HEAD and the current version.
C16_ErrorLeavesRepositoryUnchanged ==
    [][(~last'.ok) =>
          /\ commits' = commits
          /\ snapshots' = snapshots
          /\ deltas' = deltas
          /\ objects' = objects
          /\ head' = head
          /\ SetMax(DOMAIN commits') = SetMax(DOMAIN commits)]_vars

\* C17: a call of CreateCommit with an empty staged list returns the
\* no-staged-files error and writes nothing: no artifact, no temporary file,
\* no record, and HEAD is unchanged.
C17_EmptyListRejected ==
    [][(status' = NoStatus /\ last'.input # 0 /\ Len(StagedLists[last'.input]) = 0) =>
          /\ ~last'.ok
          /\ last'.err = "NoStagedFiles"
          /\ UNCHANGED <<commits, snapshots, deltas, objects, temps, head>>]_vars

C17_Witness ==
    /\ last.err = "NoStagedFiles"
    /\ StagedLists[last.input] = <<>>
    /\ GetCurrentVersion >= 1
    /\ head # EmptyHead
    /\ snapshots # <<>>

\* every staged file is under 100 MB
AllUnder100MB(files) == \A k \in 1..Len(files) : files[k].Size < 100 * 1024 * 1024

\* C18: a call of CreateCommit for a version N > 1 with a staged list whose
\* files are all under 100 MB stores the version as a binary delta against
\* N - 1: the record has a delta strategy and base_version N - 1, and
\* deltas/v<N>_from_v<N-1> exists.
C18_SmallFilesStoredAsDelta ==
    [][(/\ last'.input # 0
        /\ Len(StagedLists[last'.input]) > 0
        /\ AllUnder100MB(StagedLists[last'.input])
        /\ faults' = faults
        /\ last'.version > 1) =>
          /\ last'.ok
          /\ commits'[last'.version].compression_info.Strategy = "bsdiff"
          /\ commits'[last'.version].compression_info.BaseVersion = last'.version - 1
          /\ last'.version \in DOMAIN deltas']_vars

\* C19: on a fresh repository a call of CreateCommit with a single text
\* file of 6 bytes succeeds as a full snapshot: snapshots/v1 exists, the
\* record has version 1, an empty parent_hash and files_count 1, and HEAD is
\* the hash of that record.
C19_FirstCommitOfSmallFile ==
    [][(/\ commits = <<>>
        /\ snapshots = <<>>
        /\ deltas = <<>>
        /\ head = EmptyHead
        /\ status' = NoStatus
        /\ last'.input # 0
        /\ StagedLists[last'.input] = <<fHello>>
        /\ faults' = faults) =>
          /\ last'.ok
          /\ 1 \in DOMAIN snapshots'
          /\ 1 \in DOMAIN commits'
          /\ commits'[1].version = 1
          /\ commits'[1].parent_hash = EmptyHead
          /\ commits'[1].files_count = 1
          /\ commits'[1].compression_info.Strategy = "lz4"
          /\ head' = commits'[1].hash]_vars

\* every staged file is a small file
AllSmall(files) == \A k \in 1..Len(files) : files[k].Size <= SmallFileThreshold

\* C20: in a run of commits of small files without I/O errors, versions 1
\* and 7 are full snapshots and versions 2 to 6 are deltas against their
\* predecessors, so that the chain of version 6 has 5 links and the chain of
\* version 7 has none.
C20_ChainScenario ==
    (faults = 0 /\ \A v \in DOMAIN commits : AllSmall(StagedOf(v))) =>
        \A v \in DOMAIN commits :
            /\ v \in {1, 7} => (StrategyOf(v) = "lz4" /\ ChainHops(v) = 0)
            /\ v \in 2..6 => /\ StrategyOf(v) = "bsdiff"
                             /\ commits[v].compression_info.BaseVersion = v - 1
            /\ v = 6 => ChainHops(v) = 5

\* version v >= 1 cannot be read: its commit record is missing, the artifact
\* its record names is missing, or its restoration path fails
VersionUnreadable(v) ==
    \/ v \notin DOMAIN commits
    \/ /\ StrategyOf(v) = "lz4"
       /\ ~fileExists(SnapshotPath(v))
    \/ /\ StrategyOf(v) = "bsdiff"
       /\ Restore(v).err # ""

\* C21: a hash query or a comparison for a version v >= 1 whose commit
\* record or artifact is missing or unreadable returns an error, never an
\* empty map (or a comparison built on it) without error.
C21_MissingSurfacedAsError ==
    (status.op \in {"hashes", "compare"} /\ status.v >= 1 /\ VersionUnreadable(status.v)) =>
        status.err # ""

\* the extension is .psd, .ai or .sketch in any letter case
IsLayeredExt(path) == ToLower(Ext(path)) \in {PsdExt, AiExt, SketchExt}

Reverse(l) == [k \in 1..Len(l) |-> l[Len(l) + 1 - k]]

HasPsd(files) == \E k \in 1..Len(files) : ToLower(Ext(files[k].Path)) = PsdExt

\* C23: a version stored as a delta whose staged list holds a .psd file has
\* the layered-smart strategy in its record (the analyzer does not fail in
\* the model); the plain binary-delta strategy occurs only for staged lists
\* without a .psd file.
C23_LayeredSmartDelta ==
    \A v \in DOMAIN commits :
        /\ (StrategyOf(v) \in {"bsdiff", "psd_smart"} /\ HasPsd(StagedOf(v))) =>
               StrategyOf(v) = "psd_smart"
        /\ StrategyOf(v) = "bsdiff" => ~HasPsd(StagedOf(v))

\* C24: after a call in which the delta writer failed (building the current
\* archive, locating or converting the base, computing or writing the
\* patch), no file deltas/v<N>_from_v<B> exists, and a commit that succeeds
\* is stored as a full snapshot.
C24_FailedDeltaLeavesNoArtifact ==
    last.delta = "failed" =>
        /\ ~fileExists(DeltaPath(last.version, last.version - 1))
        /\ last.ok => /\ StrategyOf(last.version) = "lz4"
                      /\ fileExists(SnapshotPath(last.version))

\* the files of the temp directory
TempDirFiles(files) == {t \in files : t.dir = "temp"}

\* C25: when CreateCommit returns, whatever the exit path of the delta
\* writer (success, current archive not built, base not found, conversion
\* failure, patch failure), the temp directory holds neither
\* temp_current_v<N> nor temp_base_v<B>, and no file of the temp directory
\* that was not there before.
C25_TempArchivesRemoved ==
    /\ TempDirFiles(temps) = {}
    /\ last.input # 0 =>
          /\ TempCurrentZip(last.version) \notin temps
          /\ last.version >= 1 => TempBaseZip(last.version - 1) \notin temps

C25_Witness ==
    /\ last.delta = "failed"
    /\ last.deltaErr = "BaseConversionFailed"
    /\ last.ok
    /\ \E v \in DOMAIN commits : StrategyOf(v) = "bsdiff"

\* the temporary files of a restoration
RestoreTemps(files) == {t \in files : t.name \in {"temp_restore", "temp_status"}}

\* C26: when a hash query returns, with or without error, no temporary file
\* of the restoration is left: neither the materialised base archive, nor an
\* intermediate patched archive, nor the final output.
C26_RestoreTempsRemoved ==
    status.op \in {"hashes", "compare"} => RestoreTemps(temps) = {}

SnapshotWriterErrors == {"NoData", "CompressionExpanded", "EmptyOutput"}

\* C27: a call in which the snapshot writer ran with summed input size S_in
\* and output size S_out fails with NoData when S_in = 0, else with
\* CompressionExpanded when S_out > 1.2 * S_in, else with EmptyOutput when
\* S_out = 0, and then snapshots/v<N> does not exist; in every other case
\* snapshots/v<N> exists and the result, as the record shows it, carries
\* S_in, S_out and the ratio S_out / S_in.
C27_SnapshotWriterValidation ==
    (last.input # 0 /\ last.lz4Size >= 0) =>
        LET S_in == SumContentLen(StagedLists[last.input])
            S_out == last.lz4Size
            v == last.version
            expanded == 10 * S_out > 12 * S_in
        IN /\ S_in = 0 =>
                (last.err = "NoData" /\ ~fileExists(SnapshotPath(v)))
           /\ (S_in > 0 /\ expanded) =>
                (last.err = "CompressionExpanded" /\ ~fileExists(SnapshotPath(v)))
           /\ (S_in > 0 /\ ~expanded /\ S_out = 0) =>
                (last.err = "EmptyOutput" /\ ~fileExists(SnapshotPath(v)))
           /\ (S_in > 0 /\ ~expanded /\ S_out > 0) =>
                /\ last.err \notin SnapshotWriterErrors
                /\ fileExists(SnapshotPath(v))
                /\ v \in DOMAIN commits =>
                      /\ StrategyOf(v) = "lz4"
                      /\ commits[v].compression_info.OriginalSize = S_in
                      /\ commits[v].compression_info.CompressedSize = S_out
                      /\ commits[v].compression_info.CompressionRatio = <<S_out, S_in>>

C27_Witness ==
    /\ last.err = "EmptyOutput"
    /\ last.version = 2
    /\ StrategyOf(1) = "lz4"
    /\ commits[1].compression_info.CompressionRatio = <<16, 14>>

\* C28: after a restart HEAD is the hash of the record of the largest
\* version, also when the HEAD write of that version had failed, and the
\* commit made next has that hash as its parent_hash.
C28_HeadRepairedOnStartup ==
    /\ [](status.op = "startup" =>
            (DOMAIN commits # {} => head = commits[SetMax(DOMAIN commits)].hash))
    /\ [][(status.op = "startup" /\ commits' # commits /\ DOMAIN commits # {}) =>
            commits'[SetMax(DOMAIN commits')].parent_hash =
                commits[SetMax(DOMAIN commits)].hash]_vars

\* version v has an artifact: a snapshot or a delta file
HasArtifact(v) == fileExists(SnapshotPath(v)) \/ fileExists(DeltaPath(v, v - 1))

\* C29: after a restart no artifact exists for a version without a commit
\* record, and from then on no version with a record has, besides the
\* artifact its record names, an artifact left by an earlier failed call,
\* which the restoration would read.
C29_OrphansCollectedOnStartup ==
    status.op = "startup" =>
        /\ \A v \in 1..(GetCurrentVersion + 1) : HasArtifact(v) => v \in DOMAIN commits
        /\ \A v \in DOMAIN commits :
              StrategyOf(v) = "bsdiff" => ~fileExists(SnapshotPath(v))

\* C30: a plan the planner returns without error for a target T >= 1 is
\* one base step (a full snapshot or a legacy archive) followed by the patch
\* steps of the versions base + 1 .. T in ascending order, and its execution
\* materialises one base and applies exactly these T - base patches, each
\* once, in this order.
C30_PlanShape ==
    (status.op = "plan" /\ status.planErr = "") =>
        LET path == status.path
            T == status.v
        IN /\ Len(path) >= 1
           /\ path[1].Type \in {"lz4", "zip"}
           /\ \A i \in 2..Len(path) :
                 /\ path[i].Type \in {"bsdiff", "psd_smart"}
                 /\ path[i].Version = path[1].Version + i - 1
           /\ path[Len(path)].Version = T
           /\ status.bases = 1
           /\ status.applied = [i \in 1..(T - path[1].Version) |-> path[1].Version + i]

\* the backward walk from version v: 0 when it ends at a full image, else the
\* version at which no artifact is found; version 0 never has an artifact,
\* so a chain of patches that runs down past version 1 is missing version 0
RECURSIVE WalkMissing(_)
WalkMissing(v) ==
    IF v <= 0 THEN 0
    ELSE IF fileExists(SnapshotPath(v)) \/ fileExists(LegacyPath(v)) THEN -1
    ELSE IF fileExists(DeltaPath(v, v - 1)) THEN WalkMissing(v - 1)
    ELSE v

\* C31: when the backward walk from the target reaches a version without an
\* artifact, also when the patches run down past version 1 without a base,
\* planning fails with the chain-broken error that names this version, and
\* no temporary file of the restoration exists afterwards.
C31_ChainBrokenReported ==
    (status.op = "plan" /\ WalkMissing(status.v) >= 0) =>
        /\ status.planErr = "ChainBroken"
        /\ status.missing = WalkMissing(status.v)
        /\ RestoreTemps(temps) = {}

\* C32: when the artifact the planner locates for the target version is a
\* layered-smart delta, the plan is this one step, the root of the chain,
\* without a step for the version before, and the execution succeeds
\* without applying a binary patch.
C32_LayeredSmartIsRoot ==
    (/\ status.op = "plan"
     /\ ~fileExists(SnapshotPath(status.v))
     /\ ~fileExists(LegacyPath(status.v))
     /\ fileExists(DeltaPath(status.v, status.v - 1))) =>
        /\ status.planErr = ""
        /\ status.path = <<RestorationStep("psd_smart",
                                            DeltaPath(status.v, status.v - 1), status.v)>>
        /\ status.applied = <<>>
        /\ status.err = ""

\* the first path of fs that exists, NoPath when none does
RECURSIVE FirstExisting(_)
FirstExisting(fs) ==
    IF fs = <<>> THEN NoPath
    ELSE IF fileExists(Head(fs)) THEN Head(fs)
    ELSE FirstExisting(Tail(fs))

\* C33: the step the planner records for the target version v names the
\* first artifact that exists in the order snapshots/v<v>.lz4,
\* deltas/v<v>.lz4, deltas/v<v>_optimized.zstd, objects/v<v>.zip, the patch
\* of v in deltas; and a version that findVersionInStorage accepts as a
\* base is planned as the one base step on the file the locator returns.
C33_PlannerPrecedence ==
    status.op = "plan" =>
        LET v == status.v
            located == FirstExisting(<<SnapshotPath(v), CachePath(v), OptimizedPath(v),
                                       LegacyPath(v), DeltaPath(v, v - 1)>>)
        IN /\ (located # NoPath /\ located.ext # "psd_smart") =>
                 /\ status.planErr = ""
                 /\ Len(status.path) = 1
                 /\ status.path[1].File = located
                 /\ status.path[1].Version = v
           /\ located.ext = "psd_smart" =>
                 /\ status.planErr = "" => status.path[Len(status.path)].File = located
           /\ findVersionInStorage(v) # NoPath =>
                 /\ Len(status.path) = 1
                 /\ status.path[1].File = findVersionInStorage(v)

\* the staged files that can be read, in staged order
ReadableOf(files) == SelectSeq(files, LAMBDA f : f.readable)
\* one archive entry per file of files, in order
EntriesOf(files) == [k \in 1..Len(files) |-> ZipEntry(files[k].Path, files[k].content)]

LayerNames(layers) == {layers[k].Name : k \in 1..Len(layers)}
Named(layers, n) == {k \in 1..Len(layers) : layers[k].Name = n}
\* no name occurs twice in the list
UniqueNames(layers) == \A n \in LayerNames(layers) : Cardinality(Named(layers, n)) = 1
\* the first layer named n
FirstNamed(layers, n) == layers[CHOOSE k \in Named(layers, n) : \A j \in Named(layers, n) : k <= j]
\* the entries of a change list, as a set
ChangeSet(changes) == {changes[k] : k \in 1..Len(changes)}

C37_FirstOccurrenceMatched ==
    (analysis # NoAnalysis /\ ~(UniqueNames(oldLayers) /\ UniqueNames(newLayers))) =>
        /\ \A changes \in {analysis.AddedLayers, analysis.DeletedLayers,
                           analysis.ChangedLayers} :
              \A i, j \in 1..Len(changes) :
                  changes[i].LayerName = changes[j].LayerName => i = j
        /\ \A c \in ChangeSet(analysis.ChangedLayers) :
              /\ c.OldHash = FirstNamed(oldLayers, c.LayerName).ContentHash
              /\ c.NewHash = FirstNamed(newLayers, c.LayerName).ContentHash
              /\ c.OldHash # c.NewHash
        /\ \A n \in LayerNames(oldLayers) \cap LayerNames(newLayers) :
              FirstNamed(oldLayers, n).ContentHash # FirstNamed(newLayers, n).ContentHash
                  => \E c \in ChangeSet(analysis.ChangedLayers) : c.LayerName = n

\* the versions for which a background task was started
Optimizing == DOMAIN optTasks \cup DOMAIN optimized

\* C35: a background task exists only for a version with a commit record
\* of strategy lz4 whose snapshot exists; no step, of the task or of a later
\* CreateCommit or hash query, removes or changes the snapshot of a
\* committed version; a step of a task changes nothing but the file
\* deltas/v<N>_optimized.zstd of its own version; and while that file is
\* partially written neither findVersionInStorage nor the restoration plan
\* of version N resolves to it.
C35_BackgroundOptimisation ==
    /\ [](\A v \in Optimizing :
            /\ v \in DOMAIN commits
            /\ StrategyOf(v) = "lz4"
            /\ fileExists(SnapshotPath(v))
            /\ (v \in DOMAIN optimized /\ ~optimized[v].complete) =>
                  /\ findVersionInStorage(v) = SnapshotPath(v)
                  /\ findRestorationPath(v).err = ""
                  /\ \A k \in 1..Len(findRestorationPath(v).path) :
                        findRestorationPath(v).path[k].File # OptimizedPath(v))
    /\ [][/\ \A v \in DOMAIN commits :
                (StrategyOf(v) = "lz4" /\ v \in DOMAIN snapshots) =>
                    (v \in DOMAIN snapshots' /\ snapshots'[v] = snapshots[v])
          /\ \A v \in (DOMAIN optTasks') \ DOMAIN optTasks :
                /\ last'.ok /\ last'.version = v
                /\ commits'[v].compression_info.Strategy = "lz4"
          /\ optimized' # optimized =>
                /\ UNCHANGED <<repoVars, cache>>
                /\ \E v \in DOMAIN optTasks :
                      /\ DOMAIN optimized' = DOMAIN optimized \cup {v}
                      /\ \A u \in DOMAIN optimized : u # v => optimized'[u] = optimized[u]]_vars

C35_Witness ==
    /\ 1 \in DOMAIN optimized
    /\ ~optimized[1].complete
    /\ 1 \in DOMAIN optTasks
    /\ GetCurrentVersion = 2
    /\ StrategyOf(2) = "bsdiff"
    /\ status.op = "hashes"
    /\ status.v = 2

\* the number of patch steps of a restoration plan
PatchSteps(path) ==
    Cardinality({k \in 1..Len(path) : path[k].Type \in {"bsdiff", "psd_smart"}})

\* C38: a version whose record names a delta has base version N - 1, the
\* record of N - 1 names a full image and that image exists; so no two
\* consecutive versions have delta records, and the restoration plan of
\* every committed version has at most one patch step.
C38_DeltaBaseIsFullImage ==
    \A v \in DOMAIN commits :
        /\ StrategyOf(v) = "bsdiff" =>
              /\ commits[v].compression_info.BaseVersion = v - 1
              /\ v - 1 \in DOMAIN commits
              /\ StrategyOf(v - 1) # "bsdiff"
              /\ findVersionInStorage(v - 1) # NoPath
        /\ findRestorationPath(v).err = ""
        /\ PatchSteps(findRestorationPath(v).path) <= 1

\* C39: for every version N with a delta record on base B, the archive the
\* executor materialises for B is the archive the patch of N was computed
\* against, and applying the patch to it yields the archive of the staged
\* files that was diffed.
C39_BaseArchiveIdentical ==
    \A v \in DOMAIN commits :
        StrategyOf(v) = "bsdiff" =>
            LET B == commits[v].compression_info.BaseVersion
                base == Restore(B)
                patch == deltas[v]
            IN /\ base.err = ""
               /\ base.zip = patch.old
               /\ applyBsdiffPatch(base.zip, patch, "none") =
                      [err |-> "", zip |-> createTempZipFile(StagedOf(v))]

C39_Witness ==
    /\ 3 \in DOMAIN commits
    /\ StrategyOf(3) = "bsdiff"
    /\ StrategyOf(2) = "bsdiff"
    /\ StagedOf(1) = <<fTxt, fEmpty>>
    /\ Len(Restore(2).zip) = 1
    /\ Restore(2).zip = deltas[3].old

====
